---- MODULE Spec2Model ----
(***************************************************************************)
(* Model of hw/ar7.c: the avalanche peripheral complex of the TI AR7 SoC.  *)
(* The device state av, the CPU facade, guest descriptor memory and guest  *)
(* payload memory are the state; every handler of the C file is an         *)
(* operator from a world record to a world record, and every action        *)
(* applies one handler completely.                                         *)
(***************************************************************************)
EXTENDS Integers, Sequences, FiniteSets, TLC

VARIABLES av, cpu, mem, ram, line, aborted, last, phy

vars == <<av, cpu, mem, ram, line, aborted, last, phy>>

(***************************************************************************)
(* 32-bit unsigned words.  A uint32_t is the pair <<hi, lo>> of its two    *)
(* 16-bit halves, so that every value of the type is represented and       *)
(* arithmetic wraps as it does in C.                                       *)
(***************************************************************************)
\* a number below 2^31 as a word, and back
FromNat(n) == <<n \div 65536, n % 65536>>

Num(x) == x[1] * 65536 + x[2]

RECURSIVE BitAnd(_, _)
BitAnd(a, b) ==
    IF a = 0 \/ b = 0 THEN 0
    ELSE (a % 2) * (b % 2) + 2 * BitAnd(a \div 2, b \div 2)

RECURSIVE BitOr(_, _)
BitOr(a, b) ==
    IF a = 0 THEN b
    ELSE IF b = 0 THEN a
    ELSE (IF a % 2 = 1 \/ b % 2 = 1 THEN 1 ELSE 0) + 2 * BitOr(a \div 2, b \div 2)

And32(x, y) == <<BitAnd(x[1], y[1]), BitAnd(x[2], y[2])>>

Or32(x, y) == <<BitOr(x[1], y[1]), BitOr(x[2], y[2])>>

Not32(x) == <<65535 - x[1], 65535 - x[2]>>

Add32(x, y) ==
    <<(x[1] + y[1] + ((x[2] + y[2]) \div 65536)) % 65536, (x[2] + y[2]) % 65536>>

Le32(x, y) == x[1] < y[1] \/ (x[1] = y[1] /\ x[2] <= y[2])

\* x / 2
Half32(x) == <<x[1] \div 2, (x[2] \div 2) + (x[1] % 2) * 32768>>

\* #define BIT(n) (1 << (n)), for n in 0..31
BIT(n) == IF n < 16 THEN <<0, 2 ^ n>> ELSE <<2 ^ (n - 16), 0>>

\* a mutation of ByteOf: always the least significant byte
ByteOf_low(x, k) == x[2] % 256

\* byte k (0 = least significant) of a word
ByteOf(x, k) ==
    IF k = 0 THEN x[2] % 256
    ELSE IF k = 1 THEN x[2] \div 256
    ELSE IF k = 2 THEN x[1] % 256
    ELSE x[1] \div 256

Zero32 == <<0, 0>>

One32 == <<0, 1>>

Ones32 == <<65535, 65535>>

(***************************************************************************)
(* Program constants.                                                      *)
(***************************************************************************)
MAX_ETH_FRAME_SIZE == 1514
AVALANCHE_CPMAC0_BASE == 140574720
AVALANCHE_EMIF_BASE == 140576768
AVALANCHE_INTC_BASE == 140583936
AVALANCHE_CPMAC1_BASE == 140584960
CB_SOF_BIT == BIT(31)
CB_EOF_BIT == BIT(30)
CB_OWNERSHIP_BIT == BIT(29)
CB_EOQ_BIT == BIT(28)
CB_SIZE_MASK == <<0, 65535>>
CPMAC_TX_INTMASK_SET == 376
CPMAC_TX_INTMASK_CLEAR == 380
CPMAC_MAC_IN_VECTOR == 384
CPMAC_MAC_EOI_VECTOR == 388
CPMAC_MACADDRLO_0 == 432
CPMAC_MACADDRMID == 464
CPMAC_MACADDRHI == 468
CPMAC_RXGOODFRAMES == 512
CPMAC_RXBROADCASTFRAMES == 516
CPMAC_RXMULTICASTFRAMES == 520
CPMAC_RXOVERSIZEDFRAMES == 536
CPMAC_RXUNDERSIZEDFRAMES == 544
CPMAC_TXGOODFRAMES == 564
CPMAC_RXDMAOVERRUNS == 652
CPMAC_TX0_HDP == 1536
CPMAC_TX7_HDP == 1564
CPMAC_RX0_HDP == 1568
CPMAC_RX7_HDP == 1596
CPMAC_TX0_INT_ACK == 1600
CPMAC_RX0_INT_ACK == 1632
MAC_IN_VECTOR_RX_INT_OR == BIT(17)
MAC_IN_VECTOR_TX_INT_OR == BIT(16)
\* the Cause bit of hardware interrupt 0 (0x00000400)
CAUSE_HW0 == BIT(10)
AVALANCHE_WATCHDOG_BASE == 140577536
AVALANCHE_MDIO_BASE == 140582400
\* the banks of plain storage: 0x01000000, 0x02000000, 0x03000000,
\* 0x03400000, 0x04000000, 0x08610900, 0x08610c00, 0x08610d00, 0x08611a00
\* and 0x08611f00
AVALANCHE_ADSLSSYS_MEM_BASE == 16777216
AVALANCHE_BBIF_BASE == 33554432
AVALANCHE_ATM_SAR_BASE == 50331648
AVALANCHE_USB_MEM_BASE == 54525952
AVALANCHE_VLYNQ0_MEM_MAP_BASE == 67108864
AVALANCHE_GPIO_BASE == 140577024
AVALANCHE_TIMER0_BASE == 140577792
AVALANCHE_TIMER1_BASE == 140578048
AVALANCHE_DCL_BASE == 140581376
OHIO_WDT_BASE == 140582656
\* 0x08611800 and 0x08611c00
AVALANCHE_VLYNQ0_BASE == 140580864
AVALANCHE_VLYNQ1_BASE == 140581888
\* vlynq_register_t, the local half
VLYNQ_REVID == 0
VLYNQ_CTRL == 4
VLYNQ_STAT == 8
MDIO_USERACCESS_GO == BIT(31)
MDIO_USERACCESS_WRITE == BIT(30)
\* a mutation of MDIO_USERACCESS_DATA: every bit of the word is kept
MDIO_USERACCESS_ALL == <<65535, 65535>>
MDIO_USERACCESS_DATA == <<0, 65535>>
\* bits of the 16-bit PHY registers
PHY_CONTROL_REG == 0
PHY_RESET == 32768
AUTO_NEGOTIATE_EN == 4096
PHY_ISOLATE == 1024
RENEGOTIATE == 512
KICK_VALUE == 1
KICK_LOCK_1ST_STAGE == 21845
KICK_LOCK_2ND_STAGE == 43690
PRESCALE_LOCK_1ST_STAGE == 23130
PRESCALE_LOCK_2ND_STAGE == 42405
CHANGE_LOCK_1ST_STAGE == 26214
CHANGE_LOCK_2ND_STAGE == 48059
DISABLE_LOCK_1ST_STAGE == 30583
DISABLE_LOCK_2ND_STAGE == 52428
DISABLE_LOCK_3RD_STAGE == 56797

(***************************************************************************)
(* Bounds of the model.                                                    *)
(***************************************************************************)
\* the largest value a statistics counter is followed to
MaxCount == 2

(***************************************************************************)
(* The modelled part of the address space and of guest memory.             *)
(***************************************************************************)
\* interrupt lines handed to ar7_irq: the four of the switch and one other
IrqNums == {15, 16, 27, 41, 7}

\* words of av.intc that are followed (index = byte offset / 4)
IntcIdx == {0, 8, 9, 12, 13, 16, 17}

\* byte offsets of the CPMAC registers that are followed
CpmacOffs ==
    {CPMAC_TX_INTMASK_SET, CPMAC_TX_INTMASK_CLEAR, CPMAC_MAC_IN_VECTOR,
     CPMAC_MAC_EOI_VECTOR, CPMAC_MACADDRLO_0, CPMAC_MACADDRMID, CPMAC_MACADDRHI,
     CPMAC_RXGOODFRAMES, CPMAC_RXBROADCASTFRAMES, CPMAC_RXMULTICASTFRAMES,
     CPMAC_RXOVERSIZEDFRAMES, CPMAC_RXUNDERSIZEDFRAMES, CPMAC_TXGOODFRAMES,
     CPMAC_RXDMAOVERRUNS, CPMAC_TX0_HDP, CPMAC_TX0_HDP + 4, CPMAC_RX0_HDP, CPMAC_RX0_HDP + 4,
     CPMAC_TX0_INT_ACK, CPMAC_RX0_INT_ACK}

\* statistics registers among them
CpmacCounters ==
    {CPMAC_RXGOODFRAMES, CPMAC_RXBROADCASTFRAMES, CPMAC_RXMULTICASTFRAMES,
     CPMAC_RXOVERSIZEDFRAMES, CPMAC_RXUNDERSIZEDFRAMES, CPMAC_TXGOODFRAMES}

\* words of av.emif that are followed
EmifIdx == {0}

\* words of av.watchdog: the wdtimer_t struct (index = byte offset / 4)
WdtIdx == 0..7

\* words of av.mdio that are followed; 32 is USERACCESS0
MdioIdx == {0, 1, 2, 3, 8, 32}
\* the word indices of the storage banks that are followed; index 0x10400
\* of the VLYNQ0 memory is address 0x04041000
StoreIdx == {0, 1}
Vlynq0MemIdx == {0, 66560}
\* the byte offsets of the VLYNQ registers that are followed
VlynqOffs == {VLYNQ_REVID, VLYNQ_CTRL, VLYNQ_STAT}

\* guest addresses that hold a descriptor (address 0 is guest RAM as well)
DescAddrs == {0, 65536, 65552}

\* guest addresses of payload buffers
BufAddrs == {131072, 133120}

\* the device state after static initialisation (av = {...})
AvInit ==
    [intmask |-> [k \in 0..1 |-> Zero32],
     intc |-> [i \in IntcIdx |-> Zero32],
     emif |-> [i \in EmifIdx |-> Zero32],
     watchdog |-> [i \in WdtIdx |-> Zero32],
     mdio |-> [i \in MdioIdx |->
                 IF i = 0 THEN <<7, 257>> ELSE IF i = 2 THEN Ones32 ELSE Zero32],
     cpmac |-> [i \in 0..1 |-> [o \in CpmacOffs |-> Zero32]],
     vlynq |-> [i \in 0..1 |-> [o \in VlynqOffs |-> Zero32]],
     adsl |-> [i \in StoreIdx |-> Zero32],
     bbif |-> [i \in {0} |-> Zero32],
     atmsar |-> [i \in StoreIdx |-> Zero32],
     usbslave |-> [i \in StoreIdx |-> Zero32],
     vlynq0mem |-> [i \in Vlynq0MemIdx |-> Zero32],
     gpio |-> [i \in StoreIdx |-> IF i = 0 THEN <<0, 2048>> ELSE Zero32],
     timer0 |-> [i \in StoreIdx |-> Zero32],
     timer1 |-> [i \in StoreIdx |-> Zero32],
     device_config_latch |-> [i \in StoreIdx |-> IF i = 0 THEN <<605, 17041>> ELSE Zero32],
     wdt |-> [i \in StoreIdx |-> Zero32],
     nic |-> [i \in 0..1 |-> [phys |-> <<0, 0, 0, 0, 0, 0>>, vc |-> FALSE]]]

CpuInit == [CP0_Cause |-> Zero32, interrupt_request |-> FALSE]

\* the file-scope statics of the MDIO emulation; the PHY register file
\* mdio_useraccess_data[0][0..5] holds 16-bit values
PhyInit ==
    [mdio_regaddr |-> 0, mdio_phyaddr |-> 0, mdio_data |-> 0,
     mdio_useraccess_data |->
        [r \in 0..5 |->
            IF r = 0 THEN AUTO_NEGOTIATE_EN
            ELSE IF r = 1 THEN 30729
            ELSE IF r = 4 THEN 481
            ELSE IF r = 5 THEN 1
            ELSE 0]]

(***************************************************************************)
(* The world a handler runs in, and the trace of what it did.              *)
(***************************************************************************)
Ev(e, a, b, d) == [ev |-> e, a |-> a, b |-> b, data |-> d]

Log(w, e, a, b, d) == [w EXCEPT !.log = Append(@, Ev(e, a, b, d))]

\* a failed assert(): the process aborts; nothing after it runs (the file
\* includes <assert.h> and the build does not define NDEBUG)
Abort(w) == [w EXCEPT !.aborted = TRUE]

(***************************************************************************)
(* Helper functions (reg_read .. reg_set), on one register bank.           *)
(***************************************************************************)
\* callers pass 4-byte aligned offsets only (ar7_io_memread asserts it)
reg_read(reg, addr) == reg[addr]

reg_write(reg, addr, value) == [reg EXCEPT ![addr] = value]

reg_inc(reg, addr) == reg_write(reg, addr, Add32(reg_read(reg, addr), One32))

reg_clear(reg, addr, value) == [reg EXCEPT ![addr] = And32(@, Not32(value))]

reg_set(reg, addr, value) == [reg EXCEPT ![addr] = Or32(@, value)]

(***************************************************************************)
(* Interrupt emulation.                                                    *)
(***************************************************************************)
\* a mutation of irq_enabled: the enable mask is not consulted
irq_enabled_always(w, channel) == TRUE

\* a mutation of irq_enabled: the enable bit is looked up by line number
irq_enabled_line(w, channel) ==
    channel + 8 < 32 /\ And32(w.av.intmask[0], BIT(channel + 8)) # Zero32

\* if (channel < 32) { if (av.intmask[0] & (1 << channel)) ...
irq_enabled(w, channel) ==
    channel < 32 /\ And32(w.av.intmask[0], BIT(channel)) # Zero32

\* a mutation of irq_priority: the line number in the upper half
irq_priority_line(irq_num, channel) == <<irq_num, channel>>

\* ((irq_num - 8) << 16) | channel
irq_priority(irq_num, channel) == Or32(<<irq_num - 8, 0>>, <<0, channel>>)

\* a mutation of irq_lower: a falling line changes nothing
irq_lower_keep(w) == w

\* the level 0 branch: word 16 cleared, the cause bit cleared, the CPU
\* interrupt reset
irq_lower(w) ==
    [w EXCEPT !.av.intc[16] = Zero32,
              !.cpu.CP0_Cause = And32(@, Not32(CAUSE_HW0)),
              !.cpu.interrupt_request = FALSE]

ar7_irq(w, irq_num, level) ==
    LET w1 == [Log(w, "irq", irq_num, level, <<>>) EXCEPT
                  !.line = [@ EXCEPT ![irq_num] = level]]
        channel == irq_num - 8
    IN  IF irq_num \in {15, 16, 27, 41}
        THEN IF level # 0
             THEN IF irq_enabled(w1, channel)
                  THEN [w1 EXCEPT
                          !.av.intc[16] = irq_priority(irq_num, channel),
                          !.cpu.CP0_Cause = Or32(@, CAUSE_HW0),
                          !.cpu.interrupt_request = TRUE]
                  ELSE w1
             ELSE irq_lower(w1)
        ELSE w1

(***************************************************************************)
(* Interrupt controller emulation.                                         *)
(***************************************************************************)
ar7_intc_read(w, index) == [w |-> w, val |-> w.av.intc[index]]

\* a mutation of ar7_intc_write: the enable-clear words AND the value in
ar7_intc_write_and(w, index, val) ==
    LET w1 == [w EXCEPT !.av.intc[index] = val]
    IN  IF index \in {8, 9, 12, 13}
        THEN [w1 EXCEPT !.av.intmask[index % 2] = And32(@, val)]
        ELSE w1

ar7_intc_write(w, index, val) ==
    LET subindex == index % 2
        w1 == [w EXCEPT !.av.intc[index] = val]
    IN  IF index = 8 \/ index = 9
        THEN [w1 EXCEPT !.av.intmask[subindex] = Or32(@, val)]
        ELSE IF index = 12 \/ index = 13
        THEN [w1 EXCEPT !.av.intmask[subindex] = And32(@, Not32(val))]
        ELSE w1

(***************************************************************************)
(* Guest memory: cpu_physical_memory_read/write and stl_phys.              *)
(* A payload region is a list of extents, newest first: the first len      *)
(* bytes of src were written there; byte k of the region comes from the    *)
(* first extent that covers k.  The last extent is what the region held    *)
(* at the start.                                                           *)
(***************************************************************************)
\* byte k (from 0) of a frame or of an initial buffer content
ContentByte(c, k) == IF k < 6 THEN c.hdr[k + 1] ELSE (c.fill + k) % 256

ByteAt(region, k) ==
    LET i == CHOOSE i \in 1..Len(region) :
                 /\ region[i].len > k
                 /\ \A j \in 1..(i - 1) : region[j].len <= k
    IN  ContentByte(region[i].src, k)

\* cpu_physical_memory_write(addr, buf, size) on the region at addr
PhysWrite(region, c, size) ==
    IF size = 0 THEN region
    ELSE << [src |-> c, len |-> size] >> \o SelectSeq(region, LAMBDA e : e.len > size)

\* cpu_physical_memory_read(addr, buffer + length, curlen): the bytes taken
PhysRead(region, curlen) == [from |-> region, len |-> curlen]

\* byte k of an assembled transmit buffer (a sequence of chunks)
RECURSIVE BufferByte(_, _)
BufferByte(buffer, k) ==
    IF k < Head(buffer).len THEN ByteAt(Head(buffer).from, k)
    ELSE BufferByte(Tail(buffer), k - Head(buffer).len)

(***************************************************************************)
(* CPMAC emulation.                                                        *)
(***************************************************************************)
cpmac_interrupt == <<27, 41>>

\* a mutation of ar7_cpmac_read: MAC_IN_VECTOR is not cleared by the read
ar7_cpmac_read_keep(w, index, offset) ==
    [w |-> w, val |-> reg_read(w.av.cpmac[index], offset)]

ar7_cpmac_read(w, index, offset) ==
    LET val == reg_read(w.av.cpmac[index], offset)
    IN  IF offset = CPMAC_MAC_IN_VECTOR
        THEN [w |-> [w EXCEPT !.av.cpmac[index] =
                        reg_write(@, CPMAC_MAC_IN_VECTOR, Zero32)],
              val |-> val]
        ELSE [w |-> w, val |-> val]

\* while (val != 1) { channel++; val /= 2; }
RECURSIVE intmask_channel(_)
intmask_channel(val) == IF val = One32 THEN 0 ELSE 1 + intmask_channel(Half32(val))

\* what follows a frame's last descriptor
cpmac_tx_complete(w, index, channel, length, buffer) ==
    IF w.av.nic[index].vc
    THEN LET w1 == Log(w, "send", index, Num(length), buffer)
             w2 == [w1 EXCEPT !.av.cpmac[index] =
                       reg_set(reg_inc(@, CPMAC_TXGOODFRAMES), CPMAC_MAC_IN_VECTOR,
                               Add32(MAC_IN_VECTOR_TX_INT_OR, FromNat(channel)))]
         IN  ar7_irq(w2, cpmac_interrupt[index + 1], 1)
    ELSE w

\* a mutation of tx_release: the mask takes the end-of-queue bit along
tx_release_wide(mode) == And32(mode, Not32(Or32(CB_OWNERSHIP_BIT, CB_EOQ_BIT)))

\* mode &= ~(CB_OWNERSHIP_BIT)
tx_release(mode) == And32(mode, Not32(CB_OWNERSHIP_BIT))

RECURSIVE cpmac_tx(_, _, _, _)
RECURSIVE cpmac_sendloop(_, _, _, _, _, _)
\* the block labelled sendloop and what follows it
cpmac_sendloop(w, index, channel, val, length, buffer) ==
    LET tcb == w.mem[Num(val)]
        w1 == Log(w, "rd", Num(val), 0, <<>>)
        addr == tcb.buff
        curlen == tcb.length
        mode == tcb.mode
        buffer2 == buffer \o <<PhysRead(w.ram[Num(addr)], Num(curlen))>>
        length2 == Add32(length, curlen)
        mode2 == tx_release(mode)
        w2 == [Log(w1, "wr", Num(val), 0, <<>>) EXCEPT !.mem[Num(val)].mode = mode2]
    IN  IF ~Le32(Add32(length, curlen), FromNat(MAX_ETH_FRAME_SIZE)) THEN Abort(w1)
        ELSE IF And32(mode, CB_SIZE_MASK) # curlen THEN Abort(w1)
        ELSE IF And32(mode, CB_SOF_BIT) = Zero32 THEN Abort(w1)
        ELSE IF And32(mode, CB_EOF_BIT) = Zero32 THEN Abort(w1)
        ELSE IF And32(mode, CB_OWNERSHIP_BIT) = Zero32 THEN Abort(w1)
        ELSE IF And32(mode2, CB_EOQ_BIT) # Zero32
        THEN cpmac_sendloop(w2, index, channel, tcb.next, length2, buffer2)
        ELSE cpmac_tx(cpmac_tx_complete(w2, index, channel, length2, buffer2),
                      index, channel, tcb.next)

\* while (val != 0) { ... }
cpmac_tx(w, index, channel, val) ==
    IF val = Zero32 THEN w ELSE cpmac_sendloop(w, index, channel, val, Zero32, <<>>)

ar7_cpmac_write(w, index, offset, val) ==
    LET w1 == [w EXCEPT !.av.cpmac[index] = reg_write(@, offset, val)]
    IN  IF offset % 4 # 0 THEN Abort(w)
        ELSE IF offset = 256 \/ offset = 268 THEN w1
        ELSE IF offset = CPMAC_TX_INTMASK_SET
        THEN IF val # Zero32
             THEN ar7_irq([w1 EXCEPT !.av.cpmac[index] =
                               reg_set(@, CPMAC_MAC_IN_VECTOR,
                                       Add32(MAC_IN_VECTOR_TX_INT_OR,
                                             FromNat(intmask_channel(val))))],
                          cpmac_interrupt[index + 1], 1)
             ELSE w1
        ELSE IF offset = CPMAC_MACADDRHI
        THEN LET cpmac == w1.av.cpmac[index]
             IN  [w1 EXCEPT !.av.nic[index].phys =
                     <<ByteOf(cpmac[CPMAC_MACADDRHI], 0), ByteOf(cpmac[CPMAC_MACADDRHI], 1),
                       ByteOf(cpmac[CPMAC_MACADDRHI], 2), ByteOf(cpmac[CPMAC_MACADDRHI], 3),
                       ByteOf(cpmac[CPMAC_MACADDRMID], 0),
                       ByteOf(cpmac[CPMAC_MACADDRLO_0], 0)>>]
        ELSE IF offset >= CPMAC_RXGOODFRAMES /\ offset <= CPMAC_RXDMAOVERRUNS
        THEN IF val = Ones32
             THEN [w1 EXCEPT !.av.cpmac[index] = reg_write(@, offset, Zero32)]
             ELSE w1
        ELSE IF offset >= CPMAC_TX0_HDP /\ offset <= CPMAC_TX7_HDP
        THEN cpmac_tx(w1, index, (offset - CPMAC_TX0_HDP) \div 4, val)
        ELSE IF offset >= CPMAC_RX0_HDP /\ offset <= CPMAC_RX7_HDP
        THEN Log(w1, "rd", Num(val), 0, <<>>)
        ELSE w1

(***************************************************************************)
(* Network callbacks.                                                      *)
(***************************************************************************)
broadcast_macaddr == <<255, 255, 255, 255, 255, 255>>

\* a mutation of ar7_nic_can_receive: readiness taken from RX1_HDP
ar7_nic_can_receive_rx1(w, index) ==
    reg_read(w.av.cpmac[IF index # 0 THEN 1 ELSE 0], CPMAC_RX0_HDP + 4) # Zero32

ar7_nic_can_receive(w, index) ==
    reg_read(w.av.cpmac[IF index # 0 THEN 1 ELSE 0], CPMAC_RX0_HDP) # Zero32

\* a mutation of rx_statistics: a received frame is not counted as good
rx_statistics_nogood(cp, buf, size) == cp

\* the classification of a received frame and its counters
rx_statistics(cp, buf, size) ==
    LET cp1 == IF buf.hdr = broadcast_macaddr
               THEN reg_inc(cp, CPMAC_RXBROADCASTFRAMES)
               ELSE IF buf.hdr[1] % 2 = 1
               THEN reg_inc(cp, CPMAC_RXMULTICASTFRAMES)
               ELSE cp
        cp2 == IF size < 64 THEN reg_inc(cp1, CPMAC_RXUNDERSIZEDFRAMES)
               ELSE IF size > MAX_ETH_FRAME_SIZE
               THEN reg_inc(cp1, CPMAC_RXOVERSIZEDFRAMES)
               ELSE cp1
    IN  reg_inc(cp2, CPMAC_RXGOODFRAMES)

\* a mutation of rx_owned: the ownership bit is not looked at
rx_owned_always(rcb) == TRUE

\* if (mode & CB_OWNERSHIP_BIT)
rx_owned(rcb) == And32(rcb.mode, CB_OWNERSHIP_BIT) # Zero32

\* a mutation of rx_mode: the mode word is written back as it was read
rx_mode_keep(rcb, size) == rcb.mode

\* a mutation of rx_mode: the ownership bit is left set
rx_mode_owned(rcb, size) ==
    Or32(Or32(rcb.mode, And32(FromNat(size), CB_SIZE_MASK)),
         Or32(CB_SOF_BIT, CB_EOF_BIT))

\* the mode word written back to a filled receive descriptor
rx_mode(rcb, size) ==
    LET mode1 == Or32(Or32(And32(rcb.mode, Not32(CB_OWNERSHIP_BIT)),
                           And32(FromNat(size), CB_SIZE_MASK)),
                      Or32(CB_SOF_BIT, CB_EOF_BIT))
    IN  IF rcb.next = Zero32 THEN Or32(mode1, CB_EOQ_BIT) ELSE mode1

\* buf is the frame's content, size its length
ar7_nic_receive(w, index, buf, size) ==
    LET c == IF index # 0 THEN 1 ELSE 0
        w1 == [w EXCEPT !.av.cpmac[c] = rx_statistics(@, buf, size)]
        val == reg_read(w1.av.cpmac[c], CPMAC_RX0_HDP)
    IN  IF val = Zero32 THEN w1
        ELSE
        LET rcb == w1.mem[Num(val)]
            w2 == Log(w1, "rd", Num(val), 0, <<>>)
            addr == rcb.buff
            rcb2 == [rcb EXCEPT !.length = FromNat(size), !.mode = rx_mode(rcb, size)]
            w3 == [Log(w2, "payload", Num(addr), size, <<>>) EXCEPT
                      !.ram[Num(addr)] = PhysWrite(@, buf, size)]
            w4 == [Log(w3, "wr", Num(val), 0, <<>>) EXCEPT !.mem[Num(val)] = rcb2]
            w5 == [Log(w4, "hdp", Num(rcb2.next), 0, <<>>) EXCEPT !.av.cpmac[c] =
                      reg_write(@, CPMAC_RX0_HDP, rcb2.next)]
            w6 == [Log(w5, "vec", 0, 0, <<>>) EXCEPT !.av.cpmac[c] =
                      reg_set(@, CPMAC_MAC_IN_VECTOR, MAC_IN_VECTOR_RX_INT_OR)]
        IN  IF rx_owned(rcb)
            THEN ar7_irq(w6, cpmac_interrupt[index + 1], 1)
            ELSE w2

(***************************************************************************)
(* MDIO emulation.                                                         *)
(***************************************************************************)
ar7_mdio_read(w, index) ==
    LET val == w.av.mdio[index]
    IN  IF index = 32
        THEN [w |-> [w EXCEPT !.phy.mdio_data = val[2]], val |-> val]
        ELSE [w |-> w, val |-> val]

\* a mutation of phy_renegotiated: only CONTROL is written back
phy_renegotiated_control(file, v) == [file EXCEPT ![PHY_CONTROL_REG] = v]

\* the PHY registers after a renegotiation: CONTROL without RENEGOTIATE,
\* status 0x782d, remote advertisement from the advertisement
phy_renegotiated(file, v) ==
    [file EXCEPT ![PHY_CONTROL_REG] = v, ![1] = 30765,
                 ![5] = BitOr(file[4], PHY_ISOLATE + PHY_RESET)]

\* the access a store to USERACCESS0 with GO set performs; val is the store
ar7_mdio_access(w, val) ==
    LET write == And32(val, MDIO_USERACCESS_WRITE) # Zero32
        regaddr == (val[1] \div 32) % 32
        phyaddr == val[1] % 32
        data == And32(val, MDIO_USERACCESS_DATA)[2]
        kept == And32(val, MDIO_USERACCESS_DATA)[1]
        w1 == [w EXCEPT !.phy.mdio_regaddr = regaddr, !.phy.mdio_phyaddr = phyaddr,
                        !.phy.mdio_data = data]
        file == w.phy.mdio_useraccess_data
        old == file[regaddr]
    IN  IF phyaddr = 31 /\ regaddr < 6
        THEN LET w2 == [w1 EXCEPT !.phy.mdio_phyaddr = 0]
             IN  IF write
                 THEN [w |-> [w2 EXCEPT !.phy.mdio_useraccess_data[regaddr] = data],
                       val |-> <<kept, data>>]
                 ELSE IF regaddr = PHY_CONTROL_REG /\ BitAnd(old, PHY_RESET) # 0
                 THEN [w |-> [w2 EXCEPT !.phy.mdio_useraccess_data[regaddr] =
                                 BitOr(BitAnd(old, 65535 - PHY_RESET), AUTO_NEGOTIATE_EN)],
                       val |-> <<0, old>>]
                 ELSE IF regaddr = PHY_CONTROL_REG /\ BitAnd(old, RENEGOTIATE) # 0
                 THEN LET v == BitAnd(old, 65535 - RENEGOTIATE)
                      IN  [w |-> [w2 EXCEPT
                                    !.phy.mdio_useraccess_data = phy_renegotiated(file, v),
                                    !.av.mdio[3] = BIT(31)],
                           val |-> <<0, v>>]
                 ELSE [w |-> w2, val |-> <<0, old>>]
        ELSE [w |-> w1, val |-> <<kept, data>>]

ar7_mdio_write(w, index, val) ==
    LET r == IF index = 32 /\ And32(val, MDIO_USERACCESS_GO) # Zero32
             THEN ar7_mdio_access(w, val)
             ELSE [w |-> w, val |-> val]
    IN  [r.w EXCEPT !.av.mdio[index] = r.val]

(***************************************************************************)
(* Watchdog timer emulation.                                               *)
(***************************************************************************)
\* a mutation of wd_val: the stage bits are not put in
wd_val_raw(val, bits) == <<0, val>>

\* (val & ~0x3) | bits, on 16 bits
wd_val(val, bits) == <<0, BitOr(BitAnd(val, 65535 - 3), bits)>>

\* a mutation of wdt_locked: a value register is never locked
wdt_locked_never(lock, final) == FALSE

\* wdt->..._lock != wd_val(final stage value, 3)
wdt_locked(lock, final) == lock # wd_val(final, 3)

\* a store to a lock register: stages is the sequence of its magic values,
\* bits the stage each of them stands for
wdt_lock_write(w, index, val, stages, bits) ==
    IF \E k \in 1..Len(stages) : val = FromNat(stages[k])
    THEN LET k == CHOOSE k \in 1..Len(stages) : val = FromNat(stages[k])
         IN  [w EXCEPT !.av.watchdog[index] = wd_val(stages[k], bits[k])]
    ELSE Log(w, "lock unexpected", index, 0, <<>>)

\* a store to a value register: only logged
wdt_value_write(w, index, final) ==
    LET w1 == IF wdt_locked(w.av.watchdog[index - 1], final)
              THEN Log(w, "unexpected", index, 0, <<>>)
              ELSE w
    IN  Log(w1, "missing", index, 0, <<>>)

ar7_wdt_write(w, offset, val) ==
    IF offset = 0
    THEN wdt_lock_write(w, 0, val, <<KICK_LOCK_1ST_STAGE, KICK_LOCK_2ND_STAGE>>, <<1, 3>>)
    ELSE IF offset = 4 THEN wdt_value_write(w, 1, KICK_LOCK_2ND_STAGE)
    ELSE IF offset = 8
    THEN wdt_lock_write(w, 2, val, <<CHANGE_LOCK_1ST_STAGE, CHANGE_LOCK_2ND_STAGE>>, <<1, 3>>)
    ELSE IF offset = 12 THEN wdt_value_write(w, 3, CHANGE_LOCK_2ND_STAGE)
    ELSE IF offset = 16
    THEN wdt_lock_write(w, 4, val,
                        <<DISABLE_LOCK_1ST_STAGE, DISABLE_LOCK_2ND_STAGE,
                          DISABLE_LOCK_3RD_STAGE>>, <<1, 2, 3>>)
    ELSE IF offset = 20 THEN wdt_value_write(w, 5, DISABLE_LOCK_3RD_STAGE)
    ELSE IF offset = 24
    THEN wdt_lock_write(w, 6, val,
                        <<PRESCALE_LOCK_1ST_STAGE, PRESCALE_LOCK_2ND_STAGE>>, <<1, 3>>)
    ELSE IF offset = 28 THEN wdt_value_write(w, 7, PRESCALE_LOCK_2ND_STAGE)
    ELSE w

(***************************************************************************)
(* VLYNQ emulation; index 0 is av.vlynq0 and index 1 is av.vlynq1.         *)
(***************************************************************************)
\* cpu_to_le32(0x00010206) on a little-endian host
VLYNQ_REVISION == <<1, 518>>

ar7_vlynq_read(w, index, offset) ==
    LET val == reg_read(w.av.vlynq[index], offset)
    IN  [w |-> w, val |-> IF offset = VLYNQ_REVID THEN VLYNQ_REVISION ELSE val]

\* a control write that leaves the status register alone
ar7_vlynq_write_plain(w, index, offset, val) ==
    [w EXCEPT !.av.vlynq[index] = reg_write(@, offset, val)]

ar7_vlynq_write(w, index, offset, val) ==
    LET w1 == IF offset = VLYNQ_REVID THEN w
              ELSE IF offset = VLYNQ_CTRL
              THEN IF And32(val, BIT(0)) = Zero32
                   THEN [w EXCEPT !.av.vlynq[index] = reg_set(@, VLYNQ_STAT, BIT(0))]
                   ELSE [w EXCEPT !.av.vlynq[index] = reg_clear(@, VLYNQ_STAT, BIT(0))]
              ELSE w
    IN  [w1 EXCEPT !.av.vlynq[index] = reg_write(@, offset, val)]

(***************************************************************************)
(* Generic AR7 hardware emulation: the MMIO dispatcher.                    *)
(***************************************************************************)
\* #define INRANGE(base, var): size is sizeof(var)
INRANGE(addr, base, size) == addr >= base /\ addr < base + size - 1

\* #define VALUE(base, var): the index of the addressed word
VALUE(addr, base) == (addr - base) \div 4

\* the PCI device id of the TI TNETW1130 read at 0x04041000: 0x9066104c
PCI_DEVICE_ID == <<36966, 4172>>

\* a load that matches no bank returning 0
NO_BANK_VALUE_zero == Zero32

\* uint32_t val = 0xffffffff: what a load that matches no bank returns
NO_BANK_VALUE == Ones32

\* the USB memory takes 0xffffffff for every store
usb_mem_write(val) == Ones32

ar7_io_memread(w, addr) ==
    IF addr % 4 # 0 THEN [w |-> Abort(w), val |-> Zero32]
    ELSE IF INRANGE(addr, AVALANCHE_ADSLSSYS_MEM_BASE, 131072)
    THEN [w |-> w, val |-> w.av.adsl[VALUE(addr, AVALANCHE_ADSLSSYS_MEM_BASE)]]
    ELSE IF INRANGE(addr, AVALANCHE_BBIF_BASE, 4)
    THEN [w |-> w, val |-> w.av.bbif[VALUE(addr, AVALANCHE_BBIF_BASE)]]
    ELSE IF INRANGE(addr, AVALANCHE_ATM_SAR_BASE, 36864)
    THEN [w |-> w, val |-> w.av.atmsar[VALUE(addr, AVALANCHE_ATM_SAR_BASE)]]
    ELSE IF INRANGE(addr, AVALANCHE_USB_MEM_BASE, 8192)
    THEN [w |-> w, val |-> w.av.usbslave[VALUE(addr, AVALANCHE_USB_MEM_BASE)]]
    ELSE IF INRANGE(addr, AVALANCHE_VLYNQ0_MEM_MAP_BASE, 270336)
    THEN [w |-> w,
          val |-> IF addr = AVALANCHE_VLYNQ0_MEM_MAP_BASE + 266240
                  THEN PCI_DEVICE_ID
                  ELSE w.av.vlynq0mem[VALUE(addr, AVALANCHE_VLYNQ0_MEM_MAP_BASE)]]
    ELSE IF INRANGE(addr, AVALANCHE_CPMAC0_BASE, 2048)
    THEN ar7_cpmac_read(w, 0, addr - AVALANCHE_CPMAC0_BASE)
    ELSE IF INRANGE(addr, AVALANCHE_EMIF_BASE, 256)
    THEN [w |-> w, val |-> w.av.emif[(addr - AVALANCHE_EMIF_BASE) \div 4]]
    ELSE IF INRANGE(addr, AVALANCHE_GPIO_BASE, 32)
    THEN [w |-> w, val |-> w.av.gpio[VALUE(addr, AVALANCHE_GPIO_BASE)]]
    ELSE IF INRANGE(addr, AVALANCHE_WATCHDOG_BASE, 128)
    THEN [w |-> w, val |-> w.av.watchdog[(addr - AVALANCHE_WATCHDOG_BASE) \div 4]]
    ELSE IF INRANGE(addr, AVALANCHE_TIMER0_BASE, 8)
    THEN [w |-> w, val |-> w.av.timer0[VALUE(addr, AVALANCHE_TIMER0_BASE)]]
    ELSE IF INRANGE(addr, AVALANCHE_DCL_BASE, 20)
    THEN [w |-> w, val |-> w.av.device_config_latch[VALUE(addr, AVALANCHE_DCL_BASE)]]
    ELSE IF INRANGE(addr, AVALANCHE_VLYNQ0_BASE, 256)
    THEN ar7_vlynq_read(w, 0, addr - AVALANCHE_VLYNQ0_BASE)
    ELSE IF INRANGE(addr, AVALANCHE_VLYNQ1_BASE, 256)
    THEN ar7_vlynq_read(w, 1, addr - AVALANCHE_VLYNQ1_BASE)
    ELSE IF INRANGE(addr, AVALANCHE_MDIO_BASE, 136)
    THEN ar7_mdio_read(w, (addr - AVALANCHE_MDIO_BASE) \div 4)
    ELSE IF INRANGE(addr, OHIO_WDT_BASE, 32)
    THEN [w |-> w, val |-> w.av.wdt[VALUE(addr, OHIO_WDT_BASE)]]
    ELSE IF INRANGE(addr, AVALANCHE_INTC_BASE, 768)
    THEN ar7_intc_read(w, (addr - AVALANCHE_INTC_BASE) \div 4)
    ELSE IF INRANGE(addr, AVALANCHE_CPMAC1_BASE, 2048)
    THEN ar7_cpmac_read(w, 1, addr - AVALANCHE_CPMAC1_BASE)
    ELSE [w |-> w, val |-> NO_BANK_VALUE]

ar7_io_memwrite(w, addr, val) ==
    IF addr % 4 # 0 THEN Abort(w)
    ELSE IF INRANGE(addr, AVALANCHE_ADSLSSYS_MEM_BASE, 131072)
    THEN [w EXCEPT !.av.adsl[VALUE(addr, AVALANCHE_ADSLSSYS_MEM_BASE)] = val]
    ELSE IF INRANGE(addr, AVALANCHE_BBIF_BASE, 4)
    THEN [w EXCEPT !.av.bbif[VALUE(addr, AVALANCHE_BBIF_BASE)] = val]
    ELSE IF INRANGE(addr, AVALANCHE_ATM_SAR_BASE, 36864)
    THEN [w EXCEPT !.av.atmsar[VALUE(addr, AVALANCHE_ATM_SAR_BASE)] = val]
    ELSE IF INRANGE(addr, AVALANCHE_USB_MEM_BASE, 8192)
    THEN [w EXCEPT !.av.usbslave[VALUE(addr, AVALANCHE_USB_MEM_BASE)] =
                      usb_mem_write(val)]
    ELSE IF INRANGE(addr, AVALANCHE_VLYNQ0_MEM_MAP_BASE, 270336)
    THEN [w EXCEPT !.av.vlynq0mem[VALUE(addr, AVALANCHE_VLYNQ0_MEM_MAP_BASE)] = val]
    ELSE IF INRANGE(addr, AVALANCHE_CPMAC0_BASE, 2048)
    THEN ar7_cpmac_write(w, 0, addr - AVALANCHE_CPMAC0_BASE, val)
    ELSE IF INRANGE(addr, AVALANCHE_EMIF_BASE, 256)
    THEN [w EXCEPT !.av.emif[(addr - AVALANCHE_EMIF_BASE) \div 4] = val]
    ELSE IF INRANGE(addr, AVALANCHE_GPIO_BASE, 32)
    THEN [w EXCEPT !.av.gpio[VALUE(addr, AVALANCHE_GPIO_BASE)] = val]
    ELSE IF INRANGE(addr, AVALANCHE_WATCHDOG_BASE, 128)
    THEN ar7_wdt_write(w, addr - AVALANCHE_WATCHDOG_BASE, val)
    ELSE IF INRANGE(addr, AVALANCHE_TIMER0_BASE, 8)
    THEN [w EXCEPT !.av.timer0[VALUE(addr, AVALANCHE_TIMER0_BASE)] = val]
    ELSE IF INRANGE(addr, AVALANCHE_DCL_BASE, 20)
    THEN [w EXCEPT !.av.device_config_latch[VALUE(addr, AVALANCHE_DCL_BASE)] = val]
    ELSE IF INRANGE(addr, AVALANCHE_VLYNQ0_BASE, 256)
    THEN ar7_vlynq_write(w, 0, addr - AVALANCHE_VLYNQ0_BASE, val)
    ELSE IF INRANGE(addr, AVALANCHE_VLYNQ1_BASE, 256)
    THEN ar7_vlynq_write(w, 1, addr - AVALANCHE_VLYNQ1_BASE, val)
    ELSE IF INRANGE(addr, AVALANCHE_MDIO_BASE, 136)
    THEN ar7_mdio_write(w, (addr - AVALANCHE_MDIO_BASE) \div 4, val)
    ELSE IF INRANGE(addr, OHIO_WDT_BASE, 32)
    THEN [w EXCEPT !.av.wdt[VALUE(addr, OHIO_WDT_BASE)] = val]
    ELSE IF INRANGE(addr, AVALANCHE_INTC_BASE, 768)
    THEN ar7_intc_write(w, (addr - AVALANCHE_INTC_BASE) \div 4, val)
    ELSE IF INRANGE(addr, AVALANCHE_CPMAC1_BASE, 2048)
    THEN ar7_cpmac_write(w, 1, addr - AVALANCHE_CPMAC1_BASE, val)
    ELSE w

io_writeb(w, addr, value) == ar7_io_memwrite(w, addr, value)

io_readb(w, addr) ==
    LET r == ar7_io_memread(w, addr - (addr % 4))
    IN  [w |-> r.w, val |-> <<0, r.val[2] % 256>>]

io_writew(w, addr, value) == ar7_io_memwrite(w, addr, value)

io_readw(w, addr) ==
    LET r == ar7_io_memread(w, addr - (addr % 4))
    IN  IF addr % 4 = 0 THEN [w |-> r.w, val |-> <<0, r.val[1]>>]
        ELSE IF addr % 4 = 2 THEN [w |-> r.w, val |-> <<0, r.val[2]>>]
        ELSE [w |-> Abort(r.w), val |-> Zero32]

io_writel(w, addr, value) == ar7_io_memwrite(w, addr, value)

io_readl(w, addr) == ar7_io_memread(w, addr)

(***************************************************************************)
(* The state machine.                                                      *)
(***************************************************************************)
NoBuf == [hdr |-> <<0, 0, 0, 0, 0, 0>>, fill |-> 0]

World ==
    [av |-> av, cpu |-> cpu, mem |-> mem, ram |-> ram, line |-> line,
     aborted |-> aborted, phy |-> phy, log |-> <<>>]

\* every statistics counter is within the bound the model follows it to
Bounded(w) ==
    \A i \in 0..1 : \A o \in CpmacCounters : Le32(w.av.cpmac[i][o], FromNat(MaxCount))

Commit(w, op, index, addr, val, ret, buf) ==
    /\ Bounded(w)
    /\ av' = w.av
    /\ cpu' = w.cpu
    /\ mem' = w.mem
    /\ ram' = w.ram
    /\ line' = w.line
    /\ aborted' = w.aborted
    /\ phy' = w.phy
    /\ last' = [op |-> op, index |-> index, addr |-> addr, val |-> val,
                ret |-> ret, buf |-> buf, log |-> w.log]

IoWritel(addr, val) ==
    /\ ~aborted
    /\ Commit(io_writel(World, addr, val), "writel", 0, addr, val, Zero32, NoBuf)

IoReadl(addr) ==
    /\ ~aborted
    /\ LET r == io_readl(World, addr)
       IN  Commit(r.w, "readl", 0, addr, Zero32, r.val, NoBuf)

IoWritew(addr, val) ==
    /\ ~aborted
    /\ Commit(io_writew(World, addr, val), "writew", 0, addr, val, Zero32, NoBuf)

IoReadw(addr) ==
    /\ ~aborted
    /\ LET r == io_readw(World, addr)
       IN  Commit(r.w, "readw", 0, addr, Zero32, r.val, NoBuf)

IoWriteb(addr, val) ==
    /\ ~aborted
    /\ Commit(io_writeb(World, addr, val), "writeb", 0, addr, val, Zero32, NoBuf)

IoReadb(addr) ==
    /\ ~aborted
    /\ LET r == io_readb(World, addr)
       IN  Commit(r.w, "readb", 0, addr, Zero32, r.val, NoBuf)

\* av.nic[n++].vc = qemu_new_vlan_client(..., (void *)n): n is changed and
\* read without a sequence point, so the value registered for the client of
\* av.nic[n] is n as it was before or after the increment
NicOpaque(n) == {n, n + 1}

\* the network backend delivers a frame to the client of av.nic[n], which
\* calls ar7_nic_receive with the value ar7_nic_init registered for it
NicDeliver(n, buf, size) ==
    /\ ~aborted
    /\ av.nic[n].vc
    /\ \E opaque \in NicOpaque(n) :
          Commit(ar7_nic_receive(World, opaque, buf, size), "deliver", n, opaque,
                 FromNat(size), Zero32, buf)

(***************************************************************************)
(* Snapshots and the reset hook.  The file of a snapshot holds the bytes    *)
(* of av; the file-scope statics of the MDIO emulation are not part of av. *)
(***************************************************************************)
\* the errno value of EINVAL, and -EINVAL as a 32-bit int
EINVAL == 22
MINUS_EINVAL == <<65535, 65536 - EINVAL>>

\* qemu_put_buffer(f, &av, sizeof(av))
ar7_save(w) == w.av

\* a load that takes every version
ar7_load_any(w, f, version_id) == [w |-> [w EXCEPT !.av = f], result |-> Zero32]

ar7_load(w, f, version_id) ==
    IF version_id = 0
    THEN [w |-> [w EXCEPT !.av = f], result |-> Zero32]
    ELSE [w |-> w, result |-> MINUS_EINVAL]

\* env->exception_index = EXCP_RESET; do_interrupt(env): c is the CPU state
\* the reset exception leaves; av is not touched
ar7_reset(w, c) == [w EXCEPT !.cpu = c]

\* a device right after ar7_init, with the network clients of this machine
FreshWorld ==
    [World EXCEPT !.av = [AvInit EXCEPT !.nic[0].vc = av.nic[0].vc,
                                        !.nic[1].vc = av.nic[1].vc],
                  !.phy = PhyInit]

\* the running device loads the snapshot a fresh device saved
Load(version_id) ==
    /\ ~aborted
    /\ LET r == ar7_load(World, ar7_save(FreshWorld), version_id)
       IN  Commit(r.w, "load", version_id, 0, Zero32, r.result, NoBuf)

\* this device saves and a fresh device loads the file and takes its place
SaveLoad ==
    /\ ~aborted
    /\ LET r == ar7_load(FreshWorld, ar7_save(World), 0)
       IN  Commit(r.w, "saveload", 0, 0, Zero32, r.result, NoBuf)

\* the machine's reset calls the hook registered with qemu_register_reset
Reset ==
    /\ ~aborted
    /\ \E c \in {cpu, CpuInit} :
          Commit(ar7_reset(World, c), "reset", 0, 0, Zero32, Zero32, NoBuf)

\* the interrupt callback handed to the serial ports and used by the CPMACs
Irq(irq_num, level) ==
    /\ ~aborted
    /\ Commit(ar7_irq(World, irq_num, level), "irq", 0, irq_num, FromNat(level),
              Zero32, NoBuf)

\* the network backend delivers a frame to CPMAC index
NicReceive(index, buf, size) ==
    /\ ~aborted
    /\ Commit(ar7_nic_receive(World, index, buf, size), "receive", index, 0,
              FromNat(size), Zero32, buf)

\* the network backend asks whether CPMAC index takes a frame
NicCanReceive(index) ==
    /\ ~aborted
    /\ Commit(World, "can_receive", index, 0, Zero32,
              IF ar7_nic_can_receive(World, index) THEN One32 ELSE Zero32, NoBuf)

(***************************************************************************)
(* Initial states: the device after ar7_init, and what the guest driver    *)
(* has laid out in its memory.                                             *)
(***************************************************************************)
RegionSize == 133120 - 131072

RamInit ==
    [b \in BufAddrs |->
        << [src |-> [hdr |-> <<2, 17, 34, 51, 68, 85>>, fill |-> (b \div 2048) % 256],
            len |-> RegionSize] >>]

Desc(next, buff, length, mode) ==
    [next |-> FromNat(next), buff |-> FromNat(buff), length |-> FromNat(length),
     mode |-> mode]

\* mode of a descriptor: flags (a set of bit numbers) and the size field
Mode(flags, size) ==
    <<(IF 31 \in flags THEN 32768 ELSE 0) + (IF 30 \in flags THEN 16384 ELSE 0)
      + (IF 29 \in flags THEN 8192 ELSE 0) + (IF 28 \in flags THEN 4096 ELSE 0),
      size>>

\* length and mode of the descriptors a driver may have laid out
Layout(length, flags, size) == [length |-> length, mode |-> Mode(flags, size)]

\* transmit descriptors: well-formed ones, and ones lacking a flag, with a
\* length that differs from the size field, or without anything
TxLayouts ==
    {Layout(64, {31, 30, 29}, 64), Layout(64, {31, 30, 29, 28}, 64),
     Layout(1514, {31, 30, 29}, 1514), Layout(64, {31, 30}, 64),
     Layout(64, {30, 29}, 64), Layout(64, {31, 29}, 64),
     Layout(60, {31, 30, 29}, 64), Layout(0, {}, 0)}

\* receive descriptors: free ones (fresh, or with flags left from an earlier
\* use), and ones the driver still owns
RxLayouts ==
    {Layout(1514, {29}, 0), Layout(64, {31, 30, 29, 28}, 64),
     Layout(64, {31, 30}, 64), Layout(0, {}, 0)}

\* what guest address 0 may hold
ZeroLayouts == {Layout(0, {}, 0), Layout(64, {31, 30, 29}, 64)}

\* guest memory with a descriptor at each of DescAddrs, drawn from the layouts
MemSet(L0, L1, L2) ==
    {[a \in DescAddrs |->
        IF a = 0 THEN Desc(0, 131072, l0.length, l0.mode)
        ELSE IF a = 65536 THEN Desc(n1, 131072, l1.length, l1.mode)
        ELSE Desc(n2, 133120, l2.length, l2.mode)] :
        l0 \in L0, l1 \in L1, l2 \in L2, n1 \in {0, 65552}, n2 \in {0, 65536}}

MemConfigs == MemSet(ZeroLayouts, TxLayouts \cup RxLayouts, TxLayouts \cup RxLayouts)

\* ar7_nic_init binds the NICs in order: none, the first, or both
NicConfigs == {<<FALSE, FALSE>>, <<TRUE, FALSE>>, <<TRUE, TRUE>>}

InitWith(mems, nics) ==
    /\ \E n \in nics :
          av = [AvInit EXCEPT !.nic[0].vc = n[1], !.nic[1].vc = n[2]]
    /\ cpu = CpuInit
    /\ mem \in mems
    /\ ram = RamInit
    /\ line = [n \in IrqNums |-> 0]
    /\ aborted = FALSE
    /\ phy = PhyInit
    /\ last = [op |-> "init", index |-> 0, addr |-> 0, val |-> Zero32, ret |-> Zero32,
               buf |-> NoBuf, log |-> <<>>]

Init == InitWith(MemConfigs, NicConfigs)

(***************************************************************************)
(* Inputs.                                                                 *)
(***************************************************************************)
CpmacBase(i) == IF i = 0 THEN AVALANCHE_CPMAC0_BASE ELSE AVALANCHE_CPMAC1_BASE

IntcAddr(index) == AVALANCHE_INTC_BASE + 4 * index

\* frames the network backend may deliver: a short broadcast, a unicast
Frames ==
    {[buf |-> [hdr |-> broadcast_macaddr, fill |-> 7], size |-> 60],
     [buf |-> [hdr |-> <<0, 1, 2, 3, 4, 5>>, fill |-> 100], size |-> 100]}

\* one driver layout: a chain of two transmit descriptors
MemPlain ==
    [a \in DescAddrs |->
        IF a = 0 THEN Desc(0, 131072, 0, Zero32)
        ELSE IF a = 65536 THEN Desc(65552, 131072, 64, Mode({31, 30, 29}, 64))
        ELSE Desc(0, 133120, 64, Mode({31, 30, 29}, 64))]

(***************************************************************************)
(* The interrupt path: line events, INTC enable writes, and a CPMAC write  *)
(* that asserts the CPMAC line.                                            *)
(***************************************************************************)
InitIrq == InitWith({MemPlain}, {<<TRUE, TRUE>>})

NextIrq ==
    \/ \E n \in {15, 16, 27, 41}, l \in 0..1 : Irq(n, l)
    \/ \E i \in {8, 12}, v \in {BIT(7), Or32(BIT(8), BIT(19))} : IoWritel(IntcAddr(i), v)
    \/ IoWritel(IntcAddr(9), BIT(1))
    \/ IoWritel(CpmacBase(1) + CPMAC_TX_INTMASK_SET, One32)

SpecIrq == InitIrq /\ [][NextIrq]_vars

(***************************************************************************)
(* Transmit: stores to the TX head descriptor pointers of both CPMACs, the *)
(* first with a NIC bound and the second without.                          *)
(***************************************************************************)
InitTx ==
    InitWith(MemSet(ZeroLayouts, TxLayouts,
                    {Layout(64, {31, 30, 29}, 64), Layout(64, {31, 30, 29, 28}, 64),
                     Layout(1514, {31, 30, 29}, 1514), Layout(64, {31, 30}, 64)}),
             {<<TRUE, FALSE>>})

NextTx ==
    \/ \E i \in 0..1, c \in 0..1, p \in DescAddrs :
          IoWritel(CpmacBase(i) + CPMAC_TX0_HDP + 4 * c, FromNat(p))
    \/ \E i \in 0..1 : IoReadl(CpmacBase(i) + CPMAC_TXGOODFRAMES)

SpecTx == InitTx /\ [][NextTx]_vars

(***************************************************************************)
(* Receive: frames delivered to both CPMACs, the driver handing receive    *)
(* descriptors to the device in between.                                   *)
(***************************************************************************)
InitRx ==
    InitWith(MemSet({Layout(0, {}, 0)}, RxLayouts,
                    {Layout(1514, {29}, 0), Layout(64, {31, 30}, 64)}),
             {<<TRUE, TRUE>>})

NextRx ==
    \/ \E f \in Frames : NicReceive(0, f.buf, f.size)
    \/ \E f \in {g \in Frames : g.size >= 64} : NicReceive(1, f.buf, f.size)
    \/ \E p \in {0, 65536} : IoWritel(CpmacBase(0) + CPMAC_RX0_HDP, FromNat(p))
    \/ IoWritel(CpmacBase(1) + CPMAC_RX0_HDP, FromNat(65552))

SpecRx == InitRx /\ [][NextRx]_vars

(***************************************************************************)
(* Transmit and receive on CPMAC0 over the same descriptors.               *)
(***************************************************************************)
DmaLayouts ==
    {Layout(64, {31, 30, 29}, 64), Layout(64, {31, 30, 29, 28}, 64),
     Layout(64, {31, 30}, 64), Layout(1514, {29}, 0)}

InitDma == InitWith(MemSet({Layout(0, {}, 0)}, DmaLayouts, DmaLayouts), {<<TRUE, FALSE>>})

NextDma ==
    \/ \E p \in DescAddrs \ {0} : IoWritel(CpmacBase(0) + CPMAC_TX0_HDP, FromNat(p))
    \/ \E p \in DescAddrs : IoWritel(CpmacBase(0) + CPMAC_RX0_HDP, FromNat(p))
    \/ \E f \in Frames : NicReceive(0, f.buf, f.size)

SpecDma == InitDma /\ [][NextDma]_vars

(***************************************************************************)
(* The interrupt vector register of the CPMACs: guest stores and loads,    *)
(* with a transmission and a TX_INTMASK_SET store in between.              *)
(***************************************************************************)
InitVec == InitWith({MemPlain}, {<<TRUE, FALSE>>})

NextVec ==
    \/ \E i \in 0..1, v \in {Zero32, <<1, 5>>, Ones32} :
          IoWritel(CpmacBase(i) + CPMAC_MAC_IN_VECTOR, v)
    \/ \E i \in 0..1, o \in {CPMAC_MAC_IN_VECTOR, CPMAC_TXGOODFRAMES, CPMAC_TX_INTMASK_SET} :
          IoReadl(CpmacBase(i) + o)
    \/ IoWritel(CpmacBase(0) + CPMAC_TX_INTMASK_SET, <<0, 4>>)
    \/ IoWritel(CpmacBase(0) + CPMAC_TX0_HDP, FromNat(65552))

SpecVec == InitVec /\ [][NextVec]_vars

(***************************************************************************)
(* Every handler, with loads and stores of every width.                    *)
(***************************************************************************)
\* register addresses the guest touches, aligned and not
IoAddrs ==
    {CpmacBase(0) + CPMAC_MACADDRHI, CpmacBase(0) + CPMAC_MACADDRHI + 1,
     CpmacBase(0) + CPMAC_MACADDRHI + 2}

IoValues == {<<4386, 13124>>, Ones32}

InitIo ==
    InitWith(MemSet({Layout(0, {}, 0)}, {Layout(64, {31, 30, 29}, 64)},
                    {Layout(1514, {31, 30, 29}, 1514), Layout(60, {31, 30, 29}, 64)}),
             {<<TRUE, TRUE>>})

Next ==
    \/ \E a \in IoAddrs, v \in IoValues : IoWritel(a, v)
    \/ \E a \in IoAddrs : IoReadl(a)
    \/ \E a \in IoAddrs, v \in IoValues : IoWritew(a, v)
    \/ \E a \in IoAddrs : IoReadw(a)
    \/ \E a \in IoAddrs, v \in IoValues : IoWriteb(a, v)
    \/ \E a \in IoAddrs : IoReadb(a)
    \/ \E p \in DescAddrs \ {0} : IoWritel(CpmacBase(0) + CPMAC_TX0_HDP, FromNat(p))
    \/ \E n \in {15, 7} : Irq(n, 1)
    \/ \E f \in {g \in Frames : g.size < 64} : NicReceive(0, f.buf, f.size)

Spec == InitIo /\ [][Next]_vars

(***************************************************************************)
(* Claims about the interrupt path (checked under SpecIrq).                *)
(***************************************************************************)
SupportedLines == {15, 16, 27, 41}

\* the enable bit of channel c: bit c % 32 of intmask[c \div 32]
MaskBit(a, c) == And32(a.intmask[c \div 32], BIT(c % 32)) # Zero32

\* the line events of the handler that ran last, in order
IrqEvents(l) == SelectSeq(l.log, LAMBDA e : e.ev = "irq" /\ e.a \in SupportedLines)

\* C1: asserting a supported line L (channel c = L - 8) with level 1 raises
\* HW-IRQ0 when the enable bit of c is set, and leaves HW-IRQ0 as it was when
\* the bit is clear; for all four lines, line 41 (channel 33) included.
C1_IrqGating ==
    [][\A L \in SupportedLines :
          (last'.op = "irq" /\ last'.addr = L /\ last'.val = One32)
          => IF MaskBit(av, L - 8)
             THEN cpu'.interrupt_request
             ELSE cpu'.interrupt_request = cpu.interrupt_request]_vars

\* C2 as stated: HW-IRQ0 is asserted exactly when some supported line is at
\* level 1 and its channel's enable bit is set.
C2_SignalsIff ==
    cpu.interrupt_request
    <=> \E L \in SupportedLines : line[L] = 1 /\ MaskBit(av, L - 8)

\* C2 amended: HW-IRQ0 follows the latest line event and nothing else.  A
\* handler leaves it asserted after a level-1 event on a supported line of a
\* channel below 32 whose intmask[0] bit is set, deasserted after a level-0
\* event on a supported line, and unchanged otherwise; so INTC enable-set and
\* enable-clear writes never change it.
C2_FollowsLastEvent ==
    [][LET evs == IrqEvents(last')
           e == evs[Len(evs)]
       IN  IF evs = <<>>
           THEN cpu'.interrupt_request = cpu.interrupt_request
           ELSE IF e.b = 0
           THEN ~cpu'.interrupt_request
           ELSE IF e.a - 8 < 32 /\ MaskBit(av, e.a - 8)
           THEN cpu'.interrupt_request
           ELSE cpu'.interrupt_request = cpu.interrupt_request]_vars

\* C2 witness: the enable bit of the only asserted line has been cleared by an
\* enable-clear write and HW-IRQ0 is still asserted.
C2_Witness ==
    /\ last.op = "writel"
    /\ last.addr = IntcAddr(12)
    /\ cpu.interrupt_request
    /\ line[15] = 1
    /\ \A L \in SupportedLines \ {15} : line[L] = 0
    /\ ~MaskBit(av, 7)

(***************************************************************************)
(* Claims about transmission (checked under SpecTx).                       *)
(***************************************************************************)
Owned(d) == And32(d.mode, CB_OWNERSHIP_BIT) # Zero32

\* SOF, EOF and OWNERSHIP set, and length equal to the size field of mode
WellFormed(d) ==
    /\ And32(d.mode, CB_SOF_BIT) # Zero32
    /\ And32(d.mode, CB_EOF_BIT) # Zero32
    /\ Owned(d)
    /\ And32(d.mode, CB_SIZE_MASK) = d.length

\* the descriptors reached from p through next pointers, at most n of them
RECURSIVE ChainFrom(_, _, _)
ChainFrom(m, p, n) ==
    IF p = 0 \/ n = 0 THEN <<>>
    ELSE <<p>> \o ChainFrom(m, Num(m[p].next), n - 1)

Chain(m, p) == ChainFrom(m, p, Cardinality(DescAddrs))

\* the chain from p is finite, acyclic and null-terminated
RECURSIVE Terminated(_, _, _)
Terminated(m, p, n) ==
    IF p = 0 THEN TRUE
    ELSE IF n = 0 THEN FALSE
    ELSE Terminated(m, Num(m[p].next), n - 1)

ValidChain(m, p) ==
    /\ p # 0
    /\ Terminated(m, p, Cardinality(DescAddrs) - 1)
    /\ \A k \in 1..Len(Chain(m, p)) : WellFormed(m[Chain(m, p)[k]])

RECURSIVE SumLength(_, _)
SumLength(m, ch) ==
    IF ch = <<>> THEN 0 ELSE Num(m[Head(ch)].length) + SumLength(m, Tail(ch))

\* the CPMAC and the channel of a store to a TX head descriptor pointer
IsTxStore(l) ==
    /\ l.op = "writel"
    /\ \E i \in 0..1, c \in 0..7 : l.addr = CpmacBase(i) + CPMAC_TX0_HDP + 4 * c

TxIndex(l) == IF l.addr >= AVALANCHE_CPMAC1_BASE THEN 1 ELSE 0

TxChannel(l) == (l.addr - CpmacBase(TxIndex(l)) - CPMAC_TX0_HDP) \div 4

Events(l, e) == SelectSeq(l.log, LAMBDA x : x.ev = e)

\* d2 is d1 but for its OWNERSHIP bit
SameButOwnership(d1, d2) ==
    /\ d2.next = d1.next
    /\ d2.buff = d1.buff
    /\ d2.length = d1.length
    /\ And32(d2.mode, Not32(CB_OWNERSHIP_BIT)) = And32(d1.mode, Not32(CB_OWNERSHIP_BIT))

\* C3: when a store of p # 0 to a TX head descriptor pointer returns, every
\* descriptor of the well-formed chain from p has OWNERSHIP 0 in guest memory,
\* and nothing but OWNERSHIP bits has changed in any descriptor.
C3_TxOwnershipCleared ==
    [][(/\ IsTxStore(last')
        /\ ~aborted'
        /\ Num(last'.val) # 0
        /\ \A k \in 1..Len(Chain(mem, Num(last'.val))) :
              WellFormed(mem[Chain(mem, Num(last'.val))[k]]))
       => /\ \A k \in 1..Len(Chain(mem, Num(last'.val))) :
                ~Owned(mem'[Chain(mem, Num(last'.val))[k]])
          /\ \A a \in DescAddrs : SameButOwnership(mem[a], mem'[a])]_vars

\* C3 witness: a store over a chain of two descriptors has returned, and both
\* have been released.
C3_Witness ==
    /\ IsTxStore(last)
    /\ ~aborted
    /\ last.val = FromNat(65536)
    /\ Len(Events(last, "wr")) = 2
    /\ ~Owned(mem[65536])
    /\ ~Owned(mem[65552])
    /\ mem[65536].next = FromNat(65552)

\* C6: for a finite, null-terminated chain of well-formed descriptors whose
\* lengths add up to at most 1514, with any end-of-queue bits, the store to a
\* TX head descriptor pointer returns, has released every descriptor of the
\* chain, has handed one frame per descriptor to a bound NIC, and has read no
\* descriptor at guest address 0.
C6_TxDrainsChain ==
    [][(/\ IsTxStore(last')
        /\ ValidChain(mem, Num(last'.val))
        /\ SumLength(mem, Chain(mem, Num(last'.val))) <= MAX_ETH_FRAME_SIZE)
       => /\ ~aborted'
          /\ \A k \in 1..Len(Chain(mem, Num(last'.val))) :
                ~Owned(mem'[Chain(mem, Num(last'.val))[k]])
          /\ av.nic[TxIndex(last')].vc
                => Len(Events(last', "send")) = Len(Chain(mem, Num(last'.val)))
          /\ \A k \in 1..Len(last'.log) :
                ~(last'.log[k].ev = "rd" /\ last'.log[k].a = 0)]_vars

\* C7: a store of a valid chain of k frames (no end-of-queue bits) to TXc_HDP
\* of CPMAC i hands each frame to the backend exactly when a NIC is bound,
\* and, bound or not, adds k to TXGOODFRAMES, sets TX_INT_OR and c in
\* MAC_IN_VECTOR and asserts the CPMAC's interrupt line.
C7_TxAccounting ==
    [][(/\ IsTxStore(last')
        /\ ValidChain(mem, Num(last'.val))
        /\ \A k \in 1..Len(Chain(mem, Num(last'.val))) :
              And32(mem[Chain(mem, Num(last'.val))[k]].mode, CB_EOQ_BIT) = Zero32)
       => LET i == TxIndex(last')
              k == Len(Chain(mem, Num(last'.val)))
              vec == Add32(MAC_IN_VECTOR_TX_INT_OR, FromNat(TxChannel(last')))
          IN  /\ Len(Events(last', "send")) = IF av.nic[i].vc THEN k ELSE 0
              /\ av'.cpmac[i][CPMAC_TXGOODFRAMES]
                    = Add32(av.cpmac[i][CPMAC_TXGOODFRAMES], FromNat(k))
              /\ And32(av'.cpmac[i][CPMAC_MAC_IN_VECTOR], vec) = vec
              /\ line'[cpmac_interrupt[i + 1]] = 1]_vars

(***************************************************************************)
(* Claims about the handlers as a whole (checked under Spec).              *)
(***************************************************************************)
\* C5: no assertion of the core fails, whatever the guest stores, loads or
\* lays out in memory and whatever frame arrives.
C5_NoAbort == ~aborted

(***************************************************************************)
(* Claims about MAC_IN_VECTOR (checked under SpecVec).                     *)
(***************************************************************************)
IsCpmacRead(l, i, o) == l.op = "readl" /\ l.addr = CpmacBase(i) + o

\* C10: a 32-bit read of MAC_IN_VECTOR returns the register's value and
\* leaves the register 0, all other CPMAC registers as they were; a read of
\* MAC_IN_VECTOR that directly follows another one returns 0; a read of any
\* other CPMAC offset returns that register and changes no CPMAC register.
C10_ReadToClear ==
    [][\A i \in 0..1 :
          /\ IsCpmacRead(last', i, CPMAC_MAC_IN_VECTOR)
                => /\ last'.ret = av.cpmac[i][CPMAC_MAC_IN_VECTOR]
                   /\ av'.cpmac = [av.cpmac EXCEPT ![i][CPMAC_MAC_IN_VECTOR] = Zero32]
                   /\ IsCpmacRead(last, i, CPMAC_MAC_IN_VECTOR) => last'.ret = Zero32
          /\ \A o \in CpmacOffs \ {CPMAC_MAC_IN_VECTOR} :
                IsCpmacRead(last', i, o)
                => /\ last'.ret = av.cpmac[i][o]
                   /\ av'.cpmac = av.cpmac]_vars

\* C10 witness: a read of MAC_IN_VECTOR has returned the value the guest had
\* written, and the register is 0.
C10_Witness ==
    /\ IsCpmacRead(last, 0, CPMAC_MAC_IN_VECTOR)
    /\ last.ret = <<1, 5>>
    /\ av.cpmac[0][CPMAC_MAC_IN_VECTOR] = Zero32

(***************************************************************************)
(* Claims about reception (checked under SpecRx).                          *)
(***************************************************************************)
\* the CPMAC a receive callback works on, and its RX0 head descriptor pointer
RxCpmac(l) == IF l.index # 0 THEN 1 ELSE 0

RxHead(a, l) == Num(a.cpmac[RxCpmac(l)][CPMAC_RX0_HDP])

\* the frame is dropped: no descriptor, or one the device does not own
RxDrops(a, m, l) == RxHead(a, l) = 0 \/ ~Owned(m[RxHead(a, l)])

\* C4: when RX0_HDP of CPMAC i points at a descriptor with OWNERSHIP set,
\* receive(i, buf, size) puts the size bytes of the frame at the descriptor's
\* buff, sets its length to size and its mode to SOF and EOF set and
\* OWNERSHIP clear, and sets RX0_HDP to the descriptor's next pointer.
C4_RxRoundTrip ==
    [][(last'.op = "receive" /\ ~RxDrops(av, mem, last'))
       => LET d == mem[RxHead(av, last')]
              d2 == mem'[RxHead(av, last')]
              size == Num(last'.val)
          IN  /\ \A k \in 0..(size - 1) :
                    ByteAt(ram'[Num(d.buff)], k) = ContentByte(last'.buf, k)
              /\ d2.length = FromNat(size)
              /\ And32(d2.mode, CB_SOF_BIT) # Zero32
              /\ And32(d2.mode, CB_EOF_BIT) # Zero32
              /\ ~Owned(d2)
              /\ d2.next = d.next
              /\ d2.buff = d.buff
              /\ av'.cpmac[RxCpmac(last')][CPMAC_RX0_HDP] = d.next]_vars

\* C4 witness: the 100-byte frame has been received into the descriptor at
\* 0x10000, which is followed by another one.
C4_Witness ==
    /\ last.op = "receive"
    /\ last.val = FromNat(100)
    /\ Len(Events(last, "wr")) = 1
    /\ mem[65536].length = FromNat(100)
    /\ ~Owned(mem[65536])
    /\ av.cpmac[RxCpmac(last)][CPMAC_RX0_HDP] = FromNat(65552)
    /\ ByteAt(ram[131072], 99) = ContentByte(last.buf, 99)

\* C8: when receive(i, buf, size) finds RX0_HDP = 0 or a head descriptor
\* with OWNERSHIP clear, guest memory (payload and descriptors), RX0_HDP,
\* MAC_IN_VECTOR and every register that is no counter stay as they were, no
\* interrupt line is asserted, and RXGOODFRAMES has grown by one.
C8_RxDropUntouched ==
    [][(last'.op = "receive" /\ RxDrops(av, mem, last'))
       => LET i == RxCpmac(last')
          IN  /\ mem' = mem
              /\ ram' = ram
              /\ \A o \in CpmacOffs \ CpmacCounters : av'.cpmac[i][o] = av.cpmac[i][o]
              /\ av'.cpmac[1 - i] = av.cpmac[1 - i]
              /\ av'.intc = av.intc
              /\ Events(last', "irq") = <<>>
              /\ line' = line
              /\ cpu' = cpu
              /\ av'.cpmac[i][CPMAC_RXGOODFRAMES]
                    = Add32(av.cpmac[i][CPMAC_RXGOODFRAMES], One32)]_vars

\* C8 witness: a frame has been dropped at a descriptor the driver owns, and
\* has been counted.
C8_Witness ==
    /\ last.op = "receive"
    /\ Len(Events(last, "rd")) = 1
    /\ Events(last, "wr") = <<>>
    /\ RxHead(av, last) # 0
    /\ ~Owned(mem[RxHead(av, last)])
    /\ av.cpmac[RxCpmac(last)][CPMAC_RXGOODFRAMES] = FromNat(2)

(***************************************************************************)
(* Claims about descriptor ownership (checked under SpecDma).              *)
(***************************************************************************)
\* C9: over TX stores and receive callbacks, a descriptor whose OWNERSHIP
\* bit is 0 is left as it is by the device: its OWNERSHIP bit never goes from
\* 0 to 1, and no field of it is written.
C9_OwnershipRespected ==
    [][\A a \in DescAddrs :
          ~Owned(mem[a]) => (mem'[a] = mem[a] /\ ~Owned(mem'[a]))]_vars

\* C9 witness: a descriptor released by a transmission has been found at the
\* head of the receive queue, and the frame been dropped.
C9_Witness ==
    /\ last.op = "receive"
    /\ Events(last, "rd") # <<>>
    /\ Events(last, "wr") = <<>>
    /\ av.cpmac[0][CPMAC_TXGOODFRAMES] # Zero32
    /\ ~Owned(mem[RxHead(av, last)])
    /\ mem[RxHead(av, last)].length = FromNat(64)

(***************************************************************************)
(* The interrupt controller by itself: stores to and loads from its words, *)
(* and events on supported lines and on a line the model does not map.     *)
(***************************************************************************)
\* the stores of the guest: <<word, value>>
IntcStores ==
    {<<8, BIT(15)>>, <<8, BIT(7)>>, <<12, BIT(7)>>, <<9, BIT(15)>>, <<13, BIT(15)>>,
     <<16, BIT(7)>>}

InitIntc == InitWith({MemPlain}, {<<TRUE, TRUE>>})

NextIntc ==
    \/ \E n \in {15, 41, 7}, l \in 0..1 : Irq(n, l)
    \/ \E s \in IntcStores : IoWritel(IntcAddr(s[1]), s[2])
    \/ \E i \in {8, 16} : IoReadl(IntcAddr(i))

SpecIntc == InitIntc /\ [][NextIntc]_vars

(***************************************************************************)
(* Claims about the interrupt intake values (C11 checked under SpecIrq,     *)
(* the others under SpecIntc).                                             *)
(***************************************************************************)
\* the handler that ran last was a level-1 event on supported line L whose
\* channel has a bit in intmask[0], and that bit was set when it ran
RaisedEnabled(L) ==
    /\ last'.op = "irq" /\ last'.addr = L /\ last'.val = One32
    /\ L - 8 < 32
    /\ MaskBit(av, L - 8)

\* C11 as stated: a level-1 event on a supported line whose enable bit in
\* intmask[0] is set makes INTC word 16 (line << 16) | channel, sets Cause
\* bit 0x400 and asserts HW-IRQ0.
C11_LineInUpperHalf ==
    [][\A L \in SupportedLines :
          RaisedEnabled(L)
          => /\ av'.intc[16] = <<L, L - 8>>
             /\ And32(cpu'.CP0_Cause, CAUSE_HW0) # Zero32
             /\ cpu'.interrupt_request]_vars

\* C11 amended: a level-1 event on a supported line whose enable bit in
\* intmask[0] is set makes INTC word 16 (channel << 16) | channel with
\* channel = line - 8, sets Cause bit 0x400 and asserts HW-IRQ0.
C11_IntakeValue ==
    [][\A L \in SupportedLines :
          RaisedEnabled(L)
          => /\ av'.intc[16] = <<L - 8, L - 8>>
             /\ And32(cpu'.CP0_Cause, CAUSE_HW0) # Zero32
             /\ cpu'.interrupt_request]_vars

\* line 27 was raised with its channel 19 enabled
C11_Witness ==
    /\ last.op = "irq" /\ last.addr = 27 /\ last.val = One32
    /\ MaskBit(av, 19)
    /\ av.intc[16] = <<19, 19>>
    /\ cpu.interrupt_request

\* the device and the CPU right after initialisation
Fresh ==
    [av |-> [AvInit EXCEPT !.nic[0].vc = TRUE, !.nic[1].vc = TRUE], cpu |-> CpuInit,
     mem |-> MemPlain, ram |-> RamInit, line |-> [n \in IrqNums |-> 0],
     aborted |-> FALSE, phy |-> PhyInit, log |-> <<>>]

\* a store of v to INTC enable-set-1, line 15 raised, INTC word 16 loaded
SerialScenario(v) ==
    io_readl(ar7_irq(io_writel(Fresh, IntcAddr(8), v), 15, 1), IntcAddr(16))

\* the machine is where the scenario with v leaves it, the load of word 16
\* being the handler that ran last
AfterSerialScenario(v) ==
    LET w == SerialScenario(v).w
    IN  /\ last.op = "readl" /\ last.addr = IntcAddr(16)
        /\ av = w.av /\ cpu = w.cpu /\ line = w.line /\ mem = w.mem /\ ram = w.ram
        /\ phy = w.phy /\ aborted = w.aborted

\* C12 as stated: on a fresh device, after a store of 0x00008000 to INTC
\* enable-set-1 and line 15 raised, a load of INTC word 16 returns
\* 0x0007000f, Cause bit 0x400 is set and HW-IRQ0 is asserted.
C12_SerialScenarioStated ==
    AfterSerialScenario(BIT(15))
    => /\ last.ret = <<7, 15>>
       /\ And32(cpu.CP0_Cause, CAUSE_HW0) # Zero32
       /\ cpu.interrupt_request

\* C12 amended: after the store of 0x00008000 (the enable bit of channel 15,
\* not of line 15) and line 15 raised, the load of word 16 returns 0, Cause
\* bit 0x400 is clear and HW-IRQ0 is not asserted; after a store of
\* 0x00000080 (channel 7) instead, the load returns 0x00070007, the Cause
\* bit is set and HW-IRQ0 is asserted.
C12_SerialScenario ==
    /\ AfterSerialScenario(BIT(15))
       => /\ last.ret = Zero32
          /\ And32(cpu.CP0_Cause, CAUSE_HW0) = Zero32
          /\ ~cpu.interrupt_request
    /\ AfterSerialScenario(BIT(7))
       => /\ last.ret = <<7, 7>>
          /\ And32(cpu.CP0_Cause, CAUSE_HW0) # Zero32
          /\ cpu.interrupt_request

\* the scenario as the specification gives it has been run
C12_Witness ==
    /\ AfterSerialScenario(BIT(15))
    /\ av.intmask[0] = BIT(15)
    /\ line[15] = 1

\* the scenario with the enable bit of channel 7 has been run
C12_WitnessChannel ==
    /\ AfterSerialScenario(BIT(7))
    /\ av.intmask[0] = BIT(7)
    /\ line[15] = 1

\* C13: a level-0 event on line 15, 16, 27 or 41 sets INTC word 16 to 0,
\* clears Cause bit 0x400 and deasserts HW-IRQ0 whatever intmask holds; an
\* event of either level on any other line changes nothing of the device,
\* of the CPU or of guest memory.
C13_LowerAndUnknown ==
    [][last'.op = "irq"
       => IF last'.addr \in SupportedLines
          THEN last'.val = Zero32
               => /\ av'.intc[16] = Zero32
                  /\ And32(cpu'.CP0_Cause, CAUSE_HW0) = Zero32
                  /\ ~cpu'.interrupt_request
                  /\ av'.intmask = av.intmask
          ELSE /\ av' = av /\ cpu' = cpu /\ mem' = mem /\ ram' = ram
               /\ phy' = phy /\ aborted' = aborted]_vars

\* line 41 fell while line 15 is up and enabled: HW-IRQ0 is down
C13_Witness ==
    /\ last.op = "irq" /\ last.addr = 41 /\ last.val = Zero32
    /\ line[15] = 1 /\ MaskBit(av, 7)
    /\ av.intc[16] = Zero32
    /\ ~cpu.interrupt_request

\* an event on line 7, which the model does not map, while HW-IRQ0 is up
C13_WitnessUnknown ==
    /\ last.op = "irq" /\ last.addr = 7
    /\ cpu.interrupt_request
    /\ av.intc[16] = <<7, 7>>

\* C14: both intmask words start at 0; a store of v to enable-set word 8+k
\* ORs v into intmask[k], a store of v to enable-clear word 12+k removes the
\* bits of v from intmask[k], and every other handler (stores to other INTC
\* words, INTC loads, line events) leaves both words as they were.  So
\* intmask[k] is the fold of the enable stores in the order they were made.
C14_MaskIsFold ==
    /\ \A k \in 0..1 : av.intmask[k] = Zero32
    /\ [][\A k \in 0..1 :
             av'.intmask[k] =
                IF last'.op = "writel" /\ last'.addr = IntcAddr(8 + k)
                THEN Or32(av.intmask[k], last'.val)
                ELSE IF last'.op = "writel" /\ last'.addr = IntcAddr(12 + k)
                THEN And32(av.intmask[k], Not32(last'.val))
                ELSE av.intmask[k]]_vars

\* bits 15 and 7 were enabled in word 0 and bit 7 disabled again, bit 15
\* enabled in word 1
C14_Witness ==
    /\ last.op = "writel" /\ last.addr = IntcAddr(12) /\ last.val = BIT(7)
    /\ av.intc[8] = BIT(7)
    /\ av.intmask[0] = BIT(15)
    /\ av.intmask[1] = BIT(15)

(***************************************************************************)
(* More claims about reception (checked under SpecRx and SpecRdy).         *)
(***************************************************************************)
\* C15: after a receive of a frame of size s into a descriptor the device
\* owns, the descriptor's mode word is exactly SOF | EOF | (s & 0xffff),
\* plus EOQ iff its next pointer is 0; OWNERSHIP is clear and no other bit
\* the driver had put there is left.
C15_RxModeExact ==
    [][(last'.op = "receive" /\ ~RxDrops(av, mem, last'))
       => LET d == mem[RxHead(av, last')]
              exact == Or32(Or32(CB_SOF_BIT, CB_EOF_BIT),
                            And32(last'.val, CB_SIZE_MASK))
          IN  mem'[RxHead(av, last')].mode =
                 IF d.next = Zero32 THEN Or32(exact, CB_EOQ_BIT) ELSE exact]_vars

(***************************************************************************)
(* Receive readiness: the backend asks and delivers, the driver stores to  *)
(* the head descriptor pointers of receive channels 0 and 1.               *)
(***************************************************************************)
InitRdy ==
    InitWith(MemSet({Layout(0, {}, 0)}, {Layout(1514, {29}, 0)},
                    {Layout(1514, {29}, 0), Layout(64, {31, 30}, 64)}),
             {<<TRUE, TRUE>>})

NextRdy ==
    \/ \E i \in 0..1 : NicCanReceive(i)
    \/ \E i \in 0..1, f \in {g \in Frames : g.size >= 64} : NicReceive(i, f.buf, f.size)
    \/ \E i \in 0..1, p \in {0, 65536} :
          IoWritel(CpmacBase(i) + CPMAC_RX0_HDP, FromNat(p))
    \/ \E i \in 0..1, p \in {0, 65552} :
          IoWritel(CpmacBase(i) + CPMAC_RX0_HDP + 4, FromNat(p))

SpecRdy == InitRdy /\ [][NextRdy]_vars

\* C16: can_receive(i) answers true exactly when RX0_HDP of CPMAC i is not
\* 0; receive(i, ...) reads and fills no descriptor but the one at RX0_HDP;
\* a store to RX1_HDP stores the value and changes nothing else, so neither
\* the answer of can_receive nor the descriptor a later receive fills.
C16_ReadyIsChannel0 ==
    [][/\ last'.op = "can_receive"
          => /\ last'.ret = One32
                <=> av.cpmac[RxCpmac(last')][CPMAC_RX0_HDP] # Zero32
             /\ av' = av /\ mem' = mem /\ ram' = ram /\ cpu' = cpu
       /\ last'.op = "receive"
          => /\ \A k \in 1..Len(last'.log) :
                   last'.log[k].ev \in {"rd", "wr"}
                   => last'.log[k].a = RxHead(av, last')
             /\ RxHead(av, last') # 0 => Len(Events(last', "rd")) = 1
             /\ \A a \in DescAddrs : a # RxHead(av, last') => mem'[a] = mem[a]
       /\ \A i \in 0..1 :
             (last'.op = "writel" /\ last'.addr = CpmacBase(i) + CPMAC_RX0_HDP + 4)
             => /\ av' = [av EXCEPT !.cpmac[i][CPMAC_RX0_HDP + 4] = last'.val]
                /\ mem' = mem /\ ram' = ram /\ cpu' = cpu]_vars

\* CPMAC0 answers that it cannot receive while its RX1_HDP points at a free
\* descriptor and its RX0_HDP is 0
C16_Witness ==
    /\ last.op = "can_receive" /\ last.index = 0 /\ last.ret = Zero32
    /\ av.cpmac[0][CPMAC_RX0_HDP] = Zero32
    /\ av.cpmac[0][CPMAC_RX0_HDP + 4] = FromNat(65552)
    /\ Owned(mem[65552])

\* CPMAC1 filled the descriptor at its RX0_HDP while its RX1_HDP pointed at
\* another one, which is untouched
C16_WitnessReceive ==
    /\ last.op = "receive" /\ last.index = 1
    /\ Len(Events(last, "wr")) = 1
    /\ ~Owned(mem[65536])
    /\ av.cpmac[1][CPMAC_RX0_HDP + 4] = FromNat(65552)
    /\ Owned(mem[65552])

(***************************************************************************)
(* The watchdog timer: stores to its lock and value registers, and loads.  *)
(***************************************************************************)
WdtAddr(index) == AVALANCHE_WATCHDOG_BASE + 4 * index

\* the stores of the guest, <<word, value>>: for each lock register its magic
\* values and one other value, for each value register one value, and one
\* store behind the last register
WdtStores ==
    {<<0, FromNat(KICK_LOCK_1ST_STAGE)>>, <<0, FromNat(KICK_LOCK_2ND_STAGE)>>,
     <<0, <<0, 43691>>>>,
     <<1, FromNat(KICK_VALUE)>>,
     <<2, FromNat(CHANGE_LOCK_1ST_STAGE)>>, <<2, FromNat(CHANGE_LOCK_2ND_STAGE)>>,
     <<2, FromNat(KICK_LOCK_1ST_STAGE)>>,
     <<3, <<0, 57180>>>>,
     <<4, FromNat(DISABLE_LOCK_1ST_STAGE)>>, <<4, FromNat(DISABLE_LOCK_2ND_STAGE)>>,
     <<4, FromNat(DISABLE_LOCK_3RD_STAGE)>>, <<4, <<1, 56797>>>>,
     <<5, Zero32>>,
     <<6, FromNat(PRESCALE_LOCK_1ST_STAGE)>>, <<6, FromNat(PRESCALE_LOCK_2ND_STAGE)>>,
     <<6, Zero32>>,
     <<7, <<0, 65535>>>>,
     <<8, FromNat(KICK_LOCK_2ND_STAGE)>>}

InitWdt == InitWith({MemPlain}, {<<TRUE, TRUE>>})

NextWdt ==
    \/ \E s \in WdtStores : IoWritel(WdtAddr(s[1]), s[2])
    \/ \E i \in WdtIdx : IoReadl(WdtAddr(i))

SpecWdt == InitWdt /\ [][NextWdt]_vars

(***************************************************************************)
(* Claims about the watchdog timer (checked under SpecWdt).                *)
(***************************************************************************)
\* the lock registers, and the value register each of them guards
WdtLocks == {0, 2, 4, 6}

\* the magic values of lock register i, first stage first
WdtMagic(i) ==
    IF i = 0 THEN <<KICK_LOCK_1ST_STAGE, KICK_LOCK_2ND_STAGE>>
    ELSE IF i = 2 THEN <<CHANGE_LOCK_1ST_STAGE, CHANGE_LOCK_2ND_STAGE>>
    ELSE IF i = 4
    THEN <<DISABLE_LOCK_1ST_STAGE, DISABLE_LOCK_2ND_STAGE, DISABLE_LOCK_3RD_STAGE>>
    ELSE <<PRESCALE_LOCK_1ST_STAGE, PRESCALE_LOCK_2ND_STAGE>>

\* the stage a lock register shows: its low two bits
Stage(x) == x[2] % 4

\* the handler that ran last stored to word i of the watchdog
WdtStore(l, i) == l.op = "writel" /\ l.addr = WdtAddr(i)

\* the handler that ran last took the path of a locked value register
TookUnexpected(l) == \E k \in 1..Len(l.log) : l.log[k].ev = "unexpected"

\* C17: a lock register comes to stage 3 only from the stage before its
\* last (1 for kick_lock, change_lock and prescale_lock; 2 for disable_lock,
\* which in turn comes to stage 2 only from stage 1): a later-stage value
\* stored to a register that is not at the preceding stage does not advance
\* it.
C17_LockInOrder ==
    [][\A i \in WdtLocks :
          /\ (Stage(av'.watchdog[i]) = 3 /\ Stage(av.watchdog[i]) # 3)
             => Stage(av.watchdog[i]) = (IF i = 4 THEN 2 ELSE 1)
          /\ (Stage(av'.watchdog[i]) = 2 /\ Stage(av.watchdog[i]) # 2)
             => Stage(av.watchdog[i]) = 1]_vars

\* C18: a store to a value register (kick, change, disable, prescale) whose
\* lock register is not at stage 3 takes the path logged as unexpected, and
\* a store to a value register, locked or not, leaves all eight watchdog
\* registers as they were; a store to prescale while prescale_lock is at
\* stage 3 (after 0x5A5A then 0xA5A5) does not take that path.
C18_LockedValueStore ==
    [][\A i \in WdtLocks :
          WdtStore(last', i + 1)
          => /\ av'.watchdog = av.watchdog
             /\ Stage(av.watchdog[i]) # 3 => TookUnexpected(last')
             /\ (i = 6 /\ Stage(av.watchdog[i]) = 3) => ~TookUnexpected(last')]_vars

\* prescale was stored to while prescale_lock was at stage 1 and kick_lock
\* fully unlocked
C18_Witness ==
    /\ WdtStore(last, 7) /\ last.val = <<0, 65535>>
    /\ TookUnexpected(last)
    /\ Stage(av.watchdog[6]) = 1
    /\ Stage(av.watchdog[0]) = 3

\* prescale was stored to after 0x5A5A and 0xA5A5 had unlocked it
C18_WitnessUnlocked ==
    /\ WdtStore(last, 7) /\ last.val = <<0, 65535>>
    /\ ~TookUnexpected(last)
    /\ av.watchdog[6] = <<0, 42407>>

\* the stages lock register i can show
WdtStages(i) == IF i = 4 THEN {0, 1, 2, 3} ELSE {0, 1, 3}

\* C19: the low two bits of a lock register are its stage: 0 as long as no
\* magic value was accepted (the register is then 0), 1 right after its
\* first-stage value, 3 right after its final-stage value, 2 only in
\* disable_lock right after 0xCCCC; kick_lock, change_lock and prescale_lock
\* never show 2; a store of a value that is no magic value of the register
\* leaves the register as it was.
C19_StageEncoding ==
    /\ \A i \in WdtLocks : av.watchdog[i] = Zero32
    /\ [][\A i \in WdtLocks :
             /\ Stage(av'.watchdog[i]) \in WdtStages(i)
             /\ Stage(av'.watchdog[i]) = 0 => av'.watchdog[i] = Zero32
             /\ WdtStore(last', i)
                => LET magic == WdtMagic(i)
                   IN  IF \E k \in 1..Len(magic) : last'.val = FromNat(magic[k])
                       THEN \A k \in 1..Len(magic) :
                               last'.val = FromNat(magic[k])
                               => Stage(av'.watchdog[i]) =
                                     (IF k = Len(magic) THEN 3 ELSE k)
                       ELSE av'.watchdog[i] = av.watchdog[i]
             /\ ~WdtStore(last', i) => av'.watchdog[i] = av.watchdog[i]]_vars

\* disable_lock at stage 2 after 0xCCCC, kick_lock at stage 3, and a value
\* that is no magic value of change_lock stored to it at stage 1
C19_Witness ==
    /\ WdtStore(last, 2) /\ last.val = FromNat(KICK_LOCK_1ST_STAGE)
    /\ av.watchdog[2] = <<0, 26213>>
    /\ av.watchdog[4] = <<0, 52430>>
    /\ av.watchdog[0] = <<0, 43691>>

(***************************************************************************)
(* MDIO: accesses to the PHY through USERACCESS0, and loads.               *)
(***************************************************************************)
MdioAddr(index) == AVALANCHE_MDIO_BASE + 4 * index

\* the USERACCESS0 word of an access: GO, WRITE, REGADR, PHYADR, DATA
UserAccess(go, write, regaddr, phyaddr, data) ==
    <<(IF go THEN 32768 ELSE 0) + (IF write THEN 16384 ELSE 0) + 32 * regaddr + phyaddr,
      data>>

\* what the driver stores to USERACCESS0
MdioStores ==
    {UserAccess(TRUE, TRUE, PHY_CONTROL_REG, 31, PHY_RESET),
     UserAccess(TRUE, TRUE, PHY_CONTROL_REG, 31, PHY_RESET + 256),
     UserAccess(TRUE, TRUE, PHY_CONTROL_REG, 31, AUTO_NEGOTIATE_EN + RENEGOTIATE),
     UserAccess(TRUE, FALSE, PHY_CONTROL_REG, 31, 0),
     UserAccess(TRUE, FALSE, 1, 31, 0),
     UserAccess(TRUE, TRUE, PHY_CONTROL_REG, 0, PHY_RESET),
     UserAccess(TRUE, TRUE, 6, 31, PHY_RESET),
     UserAccess(FALSE, FALSE, PHY_CONTROL_REG, 31, 0)}

InitMdio == InitWith({MemPlain}, {<<TRUE, TRUE>>})

NextMdio ==
    \/ \E v \in MdioStores : IoWritel(MdioAddr(32), v)
    \/ \E i \in {0, 1} : IoWritel(MdioAddr(i), <<16384, 55>>)
    \/ \E i \in {0, 3, 8, 32} : IoReadl(MdioAddr(i))

SpecMdio == InitMdio /\ [][NextMdio]_vars

(***************************************************************************)
(* Claims about MDIO (checked under SpecMdio).                             *)
(***************************************************************************)
\* x has RESET clear and AUTO_NEGOTIATE_EN set
ResetDone(x) == BitAnd(x, PHY_RESET) = 0 /\ BitAnd(x, AUTO_NEGOTIATE_EN) # 0

\* C20: when a write access has stored a value with RESET set in the PHY
\* CONTROL register, the next read access to CONTROL of PHY 31 leaves a
\* value with RESET clear and AUTO_NEGOTIATE_EN set in the data field of
\* USERACCESS0, and likewise in the stored PHY CONTROL register.
C20_PhyReset ==
    [][(/\ BitAnd(phy.mdio_useraccess_data[PHY_CONTROL_REG], PHY_RESET) # 0
        /\ last'.op = "writel" /\ last'.addr = MdioAddr(32)
        /\ last'.val = UserAccess(TRUE, FALSE, PHY_CONTROL_REG, 31, 0))
       => /\ ResetDone(av'.mdio[32][2])
          /\ ResetDone(phy'.mdio_useraccess_data[PHY_CONTROL_REG])]_vars

\* the handler that ran last was a store to USERACCESS0 with GO set
MdioGo(l) == l.op = "writel" /\ l.addr = MdioAddr(32) /\ l.val[1] >= 32768

\* ... a read access to CONTROL of PHY 31 while the stored CONTROL has
\* RENEGOTIATE set and RESET clear
Renegotiates(l) ==
    /\ l.op = "writel" /\ l.addr = MdioAddr(32)
    /\ l.val = UserAccess(TRUE, FALSE, PHY_CONTROL_REG, 31, 0)
    /\ BitAnd(phy.mdio_useraccess_data[PHY_CONTROL_REG], RENEGOTIATE) # 0
    /\ BitAnd(phy.mdio_useraccess_data[PHY_CONTROL_REG], PHY_RESET) = 0

\* what the renegotiation does to the PHY registers
RenegotiatedPhy ==
    LET file == phy.mdio_useraccess_data
    IN  /\ phy'.mdio_useraccess_data[PHY_CONTROL_REG] =
              BitAnd(file[PHY_CONTROL_REG], 65535 - RENEGOTIATE)
        /\ phy'.mdio_useraccess_data[1] = 30765
        /\ phy'.mdio_useraccess_data[5] = BitOr(file[4], PHY_ISOLATE + PHY_RESET)
        /\ \A r \in {2, 3, 4} : phy'.mdio_useraccess_data[r] = file[r]

\* C21 as stated: the renegotiating read access clears RENEGOTIATE in the
\* stored CONTROL, sets the PHY status to 0x782d and the remote
\* advertisement to advertise | ISOLATE | RESET, and sets MDIO word 8, where
\* the LINK register is said to be, to 0x80000000.
C21_LinkAtWord8 ==
    [][Renegotiates(last') => (RenegotiatedPhy /\ av'.mdio[8] = BIT(31))]_vars

\* C21 amended: the renegotiating read access clears RENEGOTIATE in the
\* stored CONTROL, sets the PHY status to 0x782d and the remote
\* advertisement to advertise | ISOLATE | RESET, and sets MDIO word 3 (byte
\* offset 0x0c) to 0x80000000; word 8 and every other MDIO word but
\* USERACCESS0 stay as they were.
C21_Renegotiation ==
    [][Renegotiates(last')
       => /\ RenegotiatedPhy
          /\ av'.mdio[3] = BIT(31)
          /\ \A i \in MdioIdx \ {3, 32} : av'.mdio[i] = av.mdio[i]]_vars

\* a renegotiation has run: CONTROL is left with AUTO_NEGOTIATE_EN alone
C21_Witness ==
    /\ last.op = "writel" /\ last.addr = MdioAddr(32)
    /\ last.val = UserAccess(TRUE, FALSE, PHY_CONTROL_REG, 31, 0)
    /\ phy.mdio_useraccess_data[PHY_CONTROL_REG] = AUTO_NEGOTIATE_EN
    /\ phy.mdio_useraccess_data[1] = 30765
    /\ phy.mdio_useraccess_data[5] = 481 + PHY_ISOLATE + PHY_RESET
    /\ av.mdio[3] = BIT(31)
    /\ av.mdio[8] = Zero32
    /\ av.mdio[32] = <<0, AUTO_NEGOTIATE_EN>>

\* C22: when a store to USERACCESS0 with GO set has returned, whatever its
\* PHY address, register address and direction, USERACCESS0 holds a word
\* with GO (bit 31) clear, which a load returns; and unless the access was
\* to PHY 31 with a register address below 6, the six PHY registers and the
\* LINK register are as they were.
C22_GoHandshake ==
    [][MdioGo(last')
       => /\ av'.mdio[32][1] < 32768
          /\ ar7_mdio_read([World EXCEPT !.av = av'], 32).val[1] < 32768
          /\ ~(last'.val[1] % 32 = 31 /\ (last'.val[1] \div 32) % 32 < 6)
             => /\ phy'.mdio_useraccess_data = phy.mdio_useraccess_data
                /\ av'.mdio[3] = av.mdio[3]]_vars

\* a write access to register 6 of PHY 31 with data has returned, after a
\* renegotiation had set the LINK register
C22_Witness ==
    /\ last.op = "writel" /\ last.addr = MdioAddr(32)
    /\ last.val = UserAccess(TRUE, TRUE, 6, 31, PHY_RESET)
    /\ av.mdio[32] = <<0, PHY_RESET>>
    /\ av.mdio[3] = BIT(31)
    /\ phy.mdio_regaddr = 6

\* C23: whatever the guest has stored, to MDIO word 0 too, MDIO word 0 holds
\* the ID 0x00070101 it held after initialisation, and a load of it returns
\* that.
C23_VerReadOnly ==
    /\ av.mdio[0] = <<7, 257>>
    /\ (last.op = "readl" /\ last.addr = MdioAddr(0)) => last.ret = <<7, 257>>

(***************************************************************************)
(* Stores to TX_INTMASK_SET of both CPMACs, with loads of MAC_IN_VECTOR    *)
(* and falling interrupt lines in between.                                 *)
(***************************************************************************)
NextTxMask ==
    \/ \E v \in {Zero32, <<0, 1>>, <<0, 6>>, <<0, 256>>} :
          IoWritel(CpmacBase(0) + CPMAC_TX_INTMASK_SET, v)
    \/ IoWritel(CpmacBase(1) + CPMAC_TX_INTMASK_SET, <<0, 2>>)
    \/ IoReadl(CpmacBase(0) + CPMAC_MAC_IN_VECTOR)
    \/ \E n \in {27, 41} : Irq(n, 0)

SpecTxMask == InitIntc /\ [][NextTxMask]_vars

(***************************************************************************)
(* Claims about the CPMAC registers (checked under SpecTxMask, SpecMac and *)
(* SpecStat).                                                              *)
(***************************************************************************)
\* the handler that ran last stored to offset o of CPMAC i
IsCpmacStore(l, i, o) == l.op = "writel" /\ l.addr = CpmacBase(i) + o

\* the lowest bit set in v, which is not 0
LowestBit(v) ==
    CHOOSE n \in 0..31 :
        /\ And32(v, BIT(n)) # Zero32
        /\ \A m \in 0..(n - 1) : And32(v, BIT(m)) = Zero32

\* C24: a store of v # 0 to TX_INTMASK_SET of CPMAC i sets TX_INT_OR (bit
\* 16) in MAC_IN_VECTOR together with the number c of the lowest bit set
\* in v, kept within bits 0-2, and asserts line 27 (CPMAC0) or 41 (CPMAC1);
\* a store of 0 changes neither MAC_IN_VECTOR nor any interrupt state.  For
\* every v, with several bits set or with a bit above bit 7.
C24_TxIntmaskSet ==
    [][\A i \in 0..1 :
          IsCpmacStore(last', i, CPMAC_TX_INTMASK_SET)
          => LET old == av.cpmac[i][CPMAC_MAC_IN_VECTOR]
                 new == av'.cpmac[i][CPMAC_MAC_IN_VECTOR]
             IN  IF last'.val # Zero32
                 THEN /\ new = Or32(old, Add32(MAC_IN_VECTOR_TX_INT_OR,
                                               FromNat(LowestBit(last'.val) % 8)))
                      /\ line'[cpmac_interrupt[i + 1]] = 1
                 ELSE /\ new = old
                      /\ line' = line /\ cpu' = cpu /\ av'.intc = av.intc]_vars

(***************************************************************************)
(* Stores to the MAC address registers of both CPMACs, other CPMAC         *)
(* accesses in between.                                                    *)
(***************************************************************************)
NextMac ==
    \/ IoWritel(CpmacBase(0) + CPMAC_MACADDRLO_0, <<0, 102>>)
    \/ \E v \in {<<0, 85>>, <<4386, 13124>>} : IoWritel(CpmacBase(0) + CPMAC_MACADDRMID, v)
    \/ \E v \in {<<4386, 13124>>, <<0, 21862>>} :
          IoWritel(CpmacBase(0) + CPMAC_MACADDRHI, v)
    \/ IoWritel(CpmacBase(1) + CPMAC_MACADDRHI, <<4386, 13124>>)
    \/ \E o \in {CPMAC_MACADDRLO_0, CPMAC_MACADDRHI} : IoReadl(CpmacBase(0) + o)
    \/ IoWritel(CpmacBase(0) + CPMAC_MAC_EOI_VECTOR, One32)

SpecMac == InitIntc /\ [][NextMac]_vars

\* C25: right after a store to MACADDRHI of CPMAC i, phys[0..3] of nic[i]
\* are bytes 0..3 of MACADDRHI, phys[4] is the low byte of MACADDRMID and
\* phys[5] the low byte of MACADDRLO_0; every other handler (stores to
\* MACADDRLO_0 or MACADDRMID, other CPMAC stores and loads) leaves phys as
\* it was.
C25_MacLatch ==
    [][\A i \in 0..1 :
          av'.nic[i].phys =
             IF IsCpmacStore(last', i, CPMAC_MACADDRHI)
             THEN <<last'.val[2] % 256, last'.val[2] \div 256,
                    last'.val[1] % 256, last'.val[1] \div 256,
                    av.cpmac[i][CPMAC_MACADDRMID][2] % 256,
                    av.cpmac[i][CPMAC_MACADDRLO_0][2] % 256>>
             ELSE av.nic[i].phys]_vars

\* 0x66, 0x55 and 0x11223344 stored to MACADDRLO_0, MACADDRMID and
\* MACADDRHI of CPMAC0: the address is 44:33:22:11:55:66
C25_Witness ==
    /\ IsCpmacStore(last, 0, CPMAC_MACADDRHI)
    /\ last.val = <<4386, 13124>>
    /\ av.nic[0].phys = <<68, 51, 34, 17, 85, 102>>

\* MACADDRMID was stored to after the latch: the address is the old one
C25_WitnessKept ==
    /\ IsCpmacStore(last, 0, CPMAC_MACADDRMID)
    /\ av.cpmac[0][CPMAC_MACADDRMID] = <<4386, 13124>>
    /\ av.nic[0].phys = <<68, 51, 34, 17, 85, 102>>

(***************************************************************************)
(* Stores to and loads from the statistics registers of both CPMACs.       *)
(***************************************************************************)
StatOffs == {CPMAC_RXGOODFRAMES, CPMAC_TXGOODFRAMES, CPMAC_RXDMAOVERRUNS}

NextStat ==
    \/ \E i \in 0..1, o \in StatOffs, v \in {Ones32, One32} :
          IoWritel(CpmacBase(i) + o, v)
    \/ IoWritel(CpmacBase(0) + CPMAC_RXDMAOVERRUNS, <<4386, 13124>>)
    \/ \E i \in 0..1, o \in StatOffs : IoReadl(CpmacBase(i) + o)

SpecStat == InitIntc /\ [][NextStat]_vars

\* C26: a store of 0xffffffff to a statistics register (CPMAC offsets
\* 0x0200..0x028c) sets it to 0, and a store of any other value leaves the
\* register as it was.
C26_StatClearOnly ==
    [][\A i \in 0..1, o \in StatOffs :
          IsCpmacStore(last', i, o)
          => av'.cpmac[i][o] =
                IF last'.val = Ones32 THEN Zero32 ELSE av.cpmac[i][o]]_vars

(***************************************************************************)
(* Stores to and loads from the local registers of both VLYNQ bridges.     *)
(***************************************************************************)
VlynqAddr(index, offset) ==
    (IF index = 0 THEN AVALANCHE_VLYNQ0_BASE ELSE AVALANCHE_VLYNQ1_BASE) + offset

NextVlynq ==
    \/ \E i \in 0..1, v \in {Zero32, One32, <<43690, 43691>>} :
          IoWritel(VlynqAddr(i, VLYNQ_CTRL), v)
    \/ \E i \in 0..1, v \in {Zero32, <<4386, 13125>>} :
          IoWritel(VlynqAddr(i, VLYNQ_STAT), v)
    \/ \E i \in 0..1 : IoWritel(VlynqAddr(i, VLYNQ_REVID), <<4386, 13124>>)
    \/ \E i \in 0..1, o \in VlynqOffs : IoReadl(VlynqAddr(i, o))

SpecVlynq == InitIntc /\ [][NextVlynq]_vars

IsVlynqStore(l, i, o) == l.op = "writel" /\ l.addr = VlynqAddr(i, o)

\* C27: a store to CONTROL (offset 4) of VLYNQ0 or VLYNQ1 sets bit 0 of that
\* bridge's STATUS (offset 8) when the stored value has bit 0 clear and clears
\* it when the value has bit 0 set, and leaves the other STATUS bits and the
\* other bridge as they were; a load of REVID (offset 0) returns 0x00010206
\* whatever was stored there.
C27_VlynqLink ==
    [][/\ \A i \in 0..1 :
             IsVlynqStore(last', i, VLYNQ_CTRL)
             => /\ av'.vlynq[i][VLYNQ_STAT] =
                      IF last'.val[2] % 2 = 0
                      THEN Or32(av.vlynq[i][VLYNQ_STAT], One32)
                      ELSE And32(av.vlynq[i][VLYNQ_STAT], <<65535, 65534>>)
                /\ av'.vlynq[1 - i] = av.vlynq[1 - i]
       /\ \A i \in 0..1 :
             (last'.op = "readl" /\ last'.addr = VlynqAddr(i, VLYNQ_REVID))
             => last'.ret = <<1, 518>>]_vars

\* VLYNQ1 was put into reset after its STATUS held 0x11223345 and its REVID
\* was stored to: only the link bit went away
C27_Witness ==
    /\ IsVlynqStore(last, 1, VLYNQ_CTRL)
    /\ last.val = One32
    /\ av.vlynq[1][VLYNQ_STAT] = <<4386, 13124>>
    /\ av.vlynq[1][VLYNQ_REVID] = <<4386, 13124>>

(***************************************************************************)
(* Word stores to and loads from the banks of plain storage.               *)
(***************************************************************************)
\* one followed word of every bank; the timer 1 bank at 0x08610d00 is part of
\* avalanche_t and has no branch in the dispatcher
StorageAddrs ==
    {AVALANCHE_ADSLSSYS_MEM_BASE, AVALANCHE_BBIF_BASE, AVALANCHE_ATM_SAR_BASE + 4,
     AVALANCHE_USB_MEM_BASE, AVALANCHE_VLYNQ0_MEM_MAP_BASE, AVALANCHE_EMIF_BASE,
     AVALANCHE_GPIO_BASE, AVALANCHE_TIMER0_BASE + 4, AVALANCHE_TIMER1_BASE,
     AVALANCHE_DCL_BASE, OHIO_WDT_BASE}

NextStore ==
    \/ \E a \in StorageAddrs : IoWritel(a, <<4386, 13124>>)
    \/ \E a \in StorageAddrs : IoReadl(a)
    \/ IoReadl(AVALANCHE_VLYNQ0_MEM_MAP_BASE + 266240)

SpecStore == InitIntc /\ [][NextStore]_vars

\* C28: a 32-bit load that directly follows a 32-bit store of v to the same
\* 4-byte-aligned address of a plain storage bank (ADSL, BBIF, ATM SAR, USB
\* memory, VLYNQ0 memory, EMIF, GPIO, TIMER0, TIMER1, DCL, OHIO WDT) returns v.
C28_StorageRoundTrip ==
    [][(/\ last.op = "writel"
        /\ last.addr \in StorageAddrs
        /\ last'.op = "readl"
        /\ last'.addr = last.addr)
       => last'.ret = last.val]_vars

(***************************************************************************)
(* Byte and half-word accesses to two words of plain storage.              *)
(***************************************************************************)
SubWords == {AVALANCHE_ADSLSSYS_MEM_BASE, AVALANCHE_EMIF_BASE}

\* the storage word at the 4-byte-aligned address a
StoredWord(a, adr) ==
    IF adr = AVALANCHE_EMIF_BASE THEN a.emif[0] ELSE a.adsl[0]

NextSub ==
    \/ \E a \in SubWords, v \in {<<4386, 13124>>, Ones32} : IoWritel(a, v)
    \/ \E a \in SubWords, k \in 0..3 : IoWriteb(a + k, <<0, 85>>)
    \/ \E a \in SubWords, k \in {0, 2} : IoWritew(a + k, <<0, 43981>>)
    \/ \E a \in SubWords, k \in 0..3 : IoReadb(a + k)
    \/ \E a \in SubWords, k \in {0, 2} : IoReadw(a + k)

SpecSub == InitIntc /\ [][NextSub]_vars

\* the number of bytes a store of kind op writes
StoreWidth(op) == IF op = "writeb" THEN 1 ELSE 2

\* C29: a byte store or half-word store to an address inside a storage bank
\* replaces the addressed byte(s) of the containing 4-byte-aligned word by the
\* low byte(s) of the value and leaves the other bytes of that word and every
\* other register as they were.
C29_SubWordStore ==
    [][\A a \in SubWords, k \in 0..3 :
          (last'.op \in {"writeb", "writew"} /\ last'.addr = a + k)
          => /\ ~aborted'
             /\ \A b \in 0..3 :
                   ByteOf(StoredWord(av', a), b) =
                      IF b >= k /\ b < k + StoreWidth(last'.op)
                      THEN ByteOf(last'.val, b - k)
                      ELSE ByteOf(StoredWord(av, a), b)
             /\ \A c \in SubWords \ {a} : StoredWord(av', c) = StoredWord(av, c)]_vars

\* C30: a half-word load at address a returns bits 0-15 of the aligned word
\* when a mod 4 = 0 and bits 16-31 when a mod 4 = 2.
C30_HalfWordLoad ==
    [][\A a \in SubWords, k \in {0, 2} :
          (last'.op = "readw" /\ last'.addr = a + k)
          => last'.ret =
                <<0, IF k = 0 THEN StoredWord(av, a)[2] ELSE StoredWord(av, a)[1]>>]_vars

(***************************************************************************)
(* Aligned word accesses to addresses that match no bank.                  *)
(***************************************************************************)
\* 0x00001000 (start of the first window), the timer 1 bank 0x08610d00,
\* 0x08613000 (behind CPMAC1), 0x1e000000 and 0x1fbffffc (first and last word
\* of the second window)
UnmappedAddrs ==
    {4096, AVALANCHE_TIMER1_BASE, AVALANCHE_CPMAC1_BASE + 2048, 503316480, 532676604}

NextUnmapped ==
    \/ \E a \in UnmappedAddrs, v \in {Zero32, <<4386, 13124>>} : IoWritel(a, v)
    \/ \E a \in UnmappedAddrs : IoReadl(a)
    \/ \E l \in 0..1 : Irq(15, l)
    \/ \E s \in {<<8, BIT(7)>>, <<12, BIT(7)>>} : IoWritel(IntcAddr(s[1]), s[2])
    \/ IoWritel(AVALANCHE_EMIF_BASE, <<4386, 13124>>)
    \/ IoWritel(CpmacBase(1) + CPMAC_MACADDRHI, <<4386, 13124>>)

SpecUnmapped == InitIntc /\ [][NextUnmapped]_vars

\* C31: an aligned 32-bit load from an address that matches no bank returns
\* 0xffffffff, and neither it nor a 32-bit store to such an address changes a
\* register bank, an intmask word, the NIC state, the interrupt lines or the
\* CPU's interrupt state.
C31_UnmappedHarmless ==
    [][(last'.op \in {"readl", "writel"} /\ last'.addr \in UnmappedAddrs)
       => /\ last'.op = "readl" => last'.ret = Ones32
          /\ av' = av
          /\ cpu' = cpu
          /\ line' = line
          /\ phy' = phy
          /\ mem' = mem
          /\ ~aborted']_vars

\* a store into the second window while line 15 is up, its channel is enabled,
\* EMIF word 0 and the MAC address of CPMAC1 are set: all of it is still there
C31_Witness ==
    /\ last.op = "writel"
    /\ last.addr = 503316480
    /\ last.val = <<4386, 13124>>
    /\ av.intmask[0] = BIT(7)
    /\ cpu.interrupt_request
    /\ av.emif[0] = <<4386, 13124>>
    /\ av.nic[1].phys[1] = 68

(***************************************************************************)
(* Snapshots and resets of a device whose registers the guest has set.     *)
(***************************************************************************)
NextSnap ==
    \/ \E v \in {UserAccess(TRUE, TRUE, 4, 31, 4660),
                 UserAccess(TRUE, FALSE, 4, 31, 0)} : IoWritel(MdioAddr(32), v)
    \/ IoReadl(MdioAddr(32))
    \/ \E a \in {AVALANCHE_GPIO_BASE, AVALANCHE_DCL_BASE, AVALANCHE_EMIF_BASE} :
          IoWritel(a, <<4386, 13124>>)
    \/ IoWritel(CpmacBase(0) + CPMAC_MACADDRHI, <<4386, 13124>>)
    \/ IoWritel(IntcAddr(8), BIT(7))
    \/ \E version_id \in 0..1 : Load(version_id)
    \/ SaveLoad
    \/ Reset

SpecSnap == InitIntc /\ [][NextSnap]_vars

\* C32: after a save on the device and a load of that file (version 0) on a
\* freshly initialised device, the new device's state equals the old one's:
\* the register banks, intmask and the NIC MAC addresses (all of av) and the
\* PHY register file.
C32_SnapshotRoundTrip ==
    [][last'.op = "saveload"
       => /\ last'.ret = Zero32
          /\ av' = av
          /\ phy'.mdio_useraccess_data = phy.mdio_useraccess_data]_vars

\* C33: a load with a version id other than 0 returns -EINVAL and leaves the
\* whole device state as it was; a load with version id 0 returns success.
C33_VersionMismatch ==
    [][last'.op = "load"
       => IF last'.index = 0
          THEN last'.ret = Zero32
          ELSE /\ last'.ret = <<65535, 65514>>
               /\ av' = av
               /\ phy' = phy
               /\ cpu' = cpu
               /\ line' = line]_vars

\* a version 1 load was refused by a device whose GPIO word 0, MAC address and
\* PHY register 4 the guest had set: it still has them
C33_Witness ==
    /\ last.op = "load"
    /\ last.index = 1
    /\ av.gpio[0] = <<4386, 13124>>
    /\ av.nic[0].phys[1] = 68
    /\ phy.mdio_useraccess_data[4] = 4660

\* C34: after the reset hook GPIO word 0 is 0x800, DCL word 0 is 0x025d4291,
\* MDIO word 0 is 0x00070101 and MDIO word 2 is 0xffffffff, and the other
\* register banks hold what they held before the reset.
C34_ResetDefaults ==
    [][last'.op = "reset"
       => /\ av'.gpio[0] = <<0, 2048>>
          /\ av'.device_config_latch[0] = <<605, 17041>>
          /\ av'.mdio[0] = <<7, 257>>
          /\ av'.mdio[2] = Ones32
          /\ av'.emif = av.emif
          /\ av'.cpmac = av.cpmac
          /\ av'.intmask = av.intmask]_vars

(***************************************************************************)
(* Both CPMACs in use on a machine with one network client, that of NIC 0. *)
(***************************************************************************)
InitIndep == InitWith({MemPlain}, {<<TRUE, FALSE>>})

NextIndep ==
    \/ \E i \in 0..1 : IoWritel(CpmacBase(i) + CPMAC_TX0_HDP, FromNat(65552))
    \/ \E i \in 0..1 : IoWritel(CpmacBase(i) + CPMAC_RX0_HDP, FromNat(65536))
    \/ IoWritel(CpmacBase(1) + CPMAC_MACADDRHI, <<4386, 13124>>)
    \/ \E i \in 0..1 : IoReadl(CpmacBase(i) + CPMAC_MAC_IN_VECTOR)
    \/ \E f \in {g \in Frames : g.size >= 64} : NicDeliver(0, f.buf, f.size)

SpecIndep == InitIndep /\ [][NextIndep]_vars

\* the operation l is an access to the bank of CPMAC i or a frame for NIC i
OnCpmac(l, i) ==
    \/ l.op \in {"writel", "readl"} /\ l.addr >= CpmacBase(i) /\ l.addr < CpmacBase(i) + 2048
    \/ l.op = "deliver" /\ l.index = i

\* C35: an access to the bank of one CPMAC, a transmission it starts and a
\* frame received on its NIC leave the other CPMAC's register bank and MAC
\* address unchanged and do not assert the other CPMAC's line (41 for CPMAC1,
\* 27 for CPMAC0).
C35_CpmacIndependent ==
    [][\A i \in 0..1 :
          OnCpmac(last', i)
          => /\ av'.cpmac[1 - i] = av.cpmac[1 - i]
             /\ av'.nic[1 - i].phys = av.nic[1 - i].phys
             /\ \A k \in 1..Len(last'.log) :
                   ~(last'.log[k].ev = "irq" /\ last'.log[k].a = cpmac_interrupt[2 - i])]_vars

(***************************************************************************)
(* The receive channel 0 of CPMAC0 over a chain (checked under SpecRx).    *)
(***************************************************************************)
\* RX0_HDP of CPMAC0 is 0 or the head of a chain of descriptors with
\* OWNERSHIP set, linked by next and ending in next = 0
RxChainArmed(a, m) ==
    LET h == Num(a.cpmac[0][CPMAC_RX0_HDP])
    IN  \/ h = 0
        \/ h = 65552 /\ Owned(m[65552]) /\ m[65552].next = Zero32
        \/ /\ h = 65536
           /\ Owned(m[65536])
           /\ m[65536].next = FromNat(65552)
           /\ Owned(m[65552])
           /\ m[65552].next = Zero32

\* C36: with RX0_HDP at the head of a chain of device-owned descriptors ending
\* in next = 0, a received frame is stored in the head descriptor, RX0_HDP
\* moves to its next pointer, and the descriptor has EOQ exactly if it is the
\* last one; with RX0_HDP = 0 can_receive is false and the frame is dropped.
C36_RxChain ==
    [][(last'.op = "receive" /\ RxCpmac(last') = 0 /\ RxChainArmed(av, mem))
       => LET h == Num(av.cpmac[0][CPMAC_RX0_HDP])
          IN  IF h = 0
              THEN /\ ~ar7_nic_can_receive(World, 0)
                   /\ mem' = mem
                   /\ ram' = ram
                   /\ av'.cpmac[0][CPMAC_RX0_HDP] = Zero32
              ELSE /\ ~Owned(mem'[h])
                   /\ mem'[h].length = last'.val
                   /\ \A k \in 0..(Num(last'.val) - 1) :
                         ByteAt(ram'[Num(mem[h].buff)], k) = ContentByte(last'.buf, k)
                   /\ av'.cpmac[0][CPMAC_RX0_HDP] = mem[h].next
                   /\ (And32(mem'[h].mode, CB_EOQ_BIT) # Zero32)
                         <=> (mem[h].next = Zero32)
                   /\ RxChainArmed(av', mem')]_vars

\* C37: after a transmission on channel c of CPMAC i has completed, the low
\* three bits of MAC_IN_VECTOR are c and TX_INT_OR is set, also when
\* completions on other channels came before it and MAC_IN_VECTOR was not read
\* in between (checked under SpecTx, where MAC_IN_VECTOR is never read).
C37_VectorIsChannel ==
    [][(IsTxStore(last') /\ ~aborted' /\ Len(Events(last', "send")) > 0)
       => LET vec == av'.cpmac[TxIndex(last')][CPMAC_MAC_IN_VECTOR]
          IN  /\ vec[2] % 8 = TxChannel(last')
              /\ And32(vec, MAC_IN_VECTOR_TX_INT_OR) = MAC_IN_VECTOR_TX_INT_OR]_vars

\* C38: the number of bytes a receive writes to guest memory at the
\* descriptor's buff is at most the length the descriptor held when the device
\* read it: nothing outside [buff, buff + length) is written by the payload.
C38_RxWithinBuffer ==
    [][(last'.op = "receive" /\ ~RxDrops(av, mem, last'))
       => LET d == mem[RxHead(av, last')]
          IN  /\ \A k \in 1..Len(last'.log) :
                    (last'.log[k].ev = "payload")
                    => /\ last'.log[k].a = Num(d.buff)
                       /\ last'.log[k].b <= Num(d.length)
              /\ \A k \in Num(d.length)..(RegionSize - 1) :
                    ByteAt(ram'[Num(d.buff)], k) = ByteAt(ram[Num(d.buff)], k)]_vars

(***************************************************************************)
(* CPMAC0 with its interrupt channel (19, line 27) under the guest's       *)
(* control: completions, acknowledge registers and INTC stores.            *)
(***************************************************************************)
AckOffs ==
    {CPMAC_MAC_EOI_VECTOR, CPMAC_TX0_INT_ACK, CPMAC_RX0_INT_ACK, CPMAC_TX_INTMASK_CLEAR}

NextAck ==
    \/ \E i \in {8, 12} : IoWritel(IntcAddr(i), BIT(19))
    \/ IoWritel(IntcAddr(16), Zero32)
    \/ IoWritel(CpmacBase(0) + CPMAC_RX0_HDP, FromNat(65536))
    \/ NicReceive(0, [hdr |-> <<0, 1, 2, 3, 4, 5>>, fill |-> 100], 100)
    \/ IoWritel(CpmacBase(0) + CPMAC_TX0_HDP, FromNat(65552))
    \/ IoWritel(CpmacBase(0) + CPMAC_TX_INTMASK_SET, One32)
    \/ IoReadl(CpmacBase(0) + CPMAC_MAC_IN_VECTOR)
    \/ \E o \in AckOffs : IoWritel(CpmacBase(0) + o, Zero32)
    \/ Irq(27, 0)

SpecAck == InitIndep /\ [][NextAck]_vars

\* the positions of the events e in the log of the operation l
EventAt(l, e) == {k \in 1..Len(l.log) : l.log[k].ev = e}

\* C39: in a receive that delivers the frame, the payload is written before
\* the descriptor is written back, the descriptor before RX0_HDP moves on, and
\* the interrupt line is asserted after RX_INT_OR was set; when HW-IRQ0 is
\* raised by the receive, the descriptor in guest memory has OWNERSHIP clear
\* and the whole payload is in the buffer.
C39_RxOrdering ==
    [][(last'.op = "receive" /\ ~RxDrops(av, mem, last'))
       => LET h == RxHead(av, last')
              l == last'
          IN  /\ \A e \in {"payload", "wr", "hdp", "vec", "irq"} :
                    Cardinality(EventAt(l, e)) = 1
              /\ \A p \in EventAt(l, "payload"), q \in EventAt(l, "wr") : p < q
              /\ \A p \in EventAt(l, "wr"), q \in EventAt(l, "hdp") : p < q
              /\ \A p \in EventAt(l, "hdp"), q \in EventAt(l, "vec") : p < q
              /\ \A p \in EventAt(l, "vec"), q \in EventAt(l, "irq") : p < q
              /\ (cpu'.interrupt_request /\ ~cpu.interrupt_request)
                    => /\ ~Owned(mem'[h])
                       /\ And32(av'.cpmac[RxCpmac(l)][CPMAC_MAC_IN_VECTOR],
                                MAC_IN_VECTOR_RX_INT_OR) # Zero32
                       /\ \A k \in 0..(Num(l.val) - 1) :
                             ByteAt(ram'[Num(mem[h].buff)], k) = ContentByte(l.buf, k)]_vars

\* a receive on CPMAC0 has raised HW-IRQ0: the descriptor at 0x10000 is the
\* guest's again and the last byte of the frame is in its buffer
C39_Witness ==
    /\ last.op = "receive"
    /\ Len(Events(last, "irq")) = 1
    /\ cpu.interrupt_request
    /\ av.intc[16] # Zero32
    /\ ~Owned(mem[65536])
    /\ ByteAt(ram[131072], 99) = ContentByte(last.buf, 99)

\* C40: while HW-IRQ0 is asserted, no load from or store to a CPMAC register
\* and no store to an INTC register deasserts it, clears INTC word 16 or
\* clears bit 0x400 of Cause.
C40_NoAcknowledge ==
    [][(/\ cpu.interrupt_request
        /\ av.intc[16] # Zero32
        /\ \/ OnCpmac(last', 0) /\ last'.op # "deliver"
           \/ last'.op = "writel" /\ last'.addr \in {IntcAddr(8), IntcAddr(12), IntcAddr(16)})
       => /\ cpu'.interrupt_request
          /\ And32(cpu'.CP0_Cause, CAUSE_HW0) # Zero32
          /\ av'.intc[16] # Zero32]_vars

====
